---- MODULE Spec2Model ----
(***************************************************************************)
(* Listener-socket bring-up of the posix event engine:                     *)
(* src/core/lib/event_engine/posix_engine/posix_engine_listener_utils.cc   *)
(*                                                                         *)
(* The module models PrepareSocket, CreateAndPrepareListenerSocket,        *)
(* GetUnusedPort, IsSockAddrLinkLocal, ListenerContainerAddAllLocal-       *)
(* Addresses and ListenerContainerAddWildcardAddresses against a small     *)
(* model of the kernel's socket table.  Every system call's outcome is an  *)
(* input drawn by the action that makes the call.                          *)
(***************************************************************************)
EXTENDS Integers, Sequences, FiniteSets, TLC

(***************************************************************************)
(* Bounds of the model.                                                    *)
(***************************************************************************)
\* Port numbers the kernel can hand out are 1..MaxPort (0 = "any port").
MaxPort == 2
\* Longest interface list getifaddrs() reports.
MaxIfaces == 2
\* Number of ListenerContainerAdd* calls made on the one container.
MaxCalls == 2
\* Number of direct CreateAndPrepareListenerSocket calls (SpecPrepare).
MaxDirectCalls == 1
\* Threads asking for the accept-queue size at once (SpecQueue).
MaxThreads == 2
\* GetMaxAcceptQueueSize calls each of them makes.
MaxGets == 2
\* Times the administrator rewrites somaxconn while the process runs.
MaxChanges == 1

Ports == 1..MaxPort

\* The ports a caller asks for: any port, or one port of its own choice.
RequestPorts == {0, MaxPort}

VARIABLES
  platform,           \* build/host facts: GRPC_HAVE_IFADDRS, SO_REUSEPORT, GRPC_LINUX_ERRQUEUE
  options,            \* the listener's PosixTcpOptions (read-only to this code)
  fds,                \* the kernel's socket table, indexed by descriptor
  listener_sockets,   \* the ListenerSocketsContainer, in append order
  host_ifaddrs,       \* the host's interface list, known once getifaddrs() has read it
  is_ipv4_available,  \* the function-local static of line 276: "uninit", "yes", "no"
  pc,                 \* position of the bring-up thread
  frame,              \* locals of the call in progress
  ret,                \* what the last finished call returned, and what it did
  ncalls,             \* calls made so far: [direct, container]
  kMaxAcceptQueueSize, \* the function-local static of line 128: [initialized, value]
  sizer               \* /proc/sys/net/core/somaxconn and the threads asking for the size

vars == <<platform, options, fds, listener_sockets, host_ifaddrs,
          is_ipv4_available, pc, frame, ret, ncalls, kMaxAcceptQueueSize, sizer>>

(***************************************************************************)
(* Resolved addresses: family, address bytes (network order), port.        *)
(***************************************************************************)
Zeros(n) == [i \in 1..n |-> 0]

NoAddr == [fam |-> "AF_UNSPEC", host |-> <<>>, port |-> 0]

ResolvedAddressMakeWild4(port) ==
  [fam |-> "AF_INET", host |-> Zeros(4), port |-> port]

ResolvedAddressMakeWild6(port) ==
  [fam |-> "AF_INET6", host |-> Zeros(16), port |-> port]

ResolvedAddressSetPort(addr, port) ==
  IF addr.fam \in {"AF_INET", "AF_INET6"} THEN [addr EXCEPT !.port = port] ELSE addr

\* AF_UNIX and AF_VSOCK addresses carry no port; the helper reports 1 for them.
ResolvedAddressGetPort(addr) ==
  IF addr.fam \in {"AF_INET", "AF_INET6"} THEN addr.port ELSE 1

ResolvedAddressIsVSock(addr) == addr.fam = "AF_VSOCK"

\* ::ffff:a.b.c.d
ResolvedAddressIsV4Mapped(addr) ==
  /\ addr.fam = "AF_INET6"
  /\ SubSeq(addr.host, 1, 12) = Zeros(10) \o <<255, 255>>

\* The plain IPv4 form written to addr4_copy.
V4MappedToV4(addr) ==
  [fam |-> "AF_INET", host |-> SubSeq(addr.host, 13, 16), port |-> addr.port]

\* The printable form of an address: one message part that names it.
ResolvedAddressToString(addr) == [t |-> "addr", a |-> addr]

IsIp(addr) == addr.fam \in {"AF_INET", "AF_INET6"}

IsWildHost(addr) == IsIp(addr) /\ addr.host = Zeros(Len(addr.host))

(***************************************************************************)
(* absl::Status / absl::StatusOr.  A message is a sequence of parts.       *)
(***************************************************************************)
Part(text) == [t |-> text, a |-> NoAddr]

OkStatus == [ok |-> TRUE, message |-> <<>>]

FailedPreconditionError(msg) == [ok |-> FALSE, message |-> msg]

\* The status a failed option setter or the socket factory hands back.
ErrorFrom(call) == [ok |-> FALSE, message |-> <<Part(call), Part("strerror(errno)")>>]

\* m occurs in msg as a contiguous run of parts.
MessageContains(msg, m) ==
  \E i \in 0..(Len(msg) - Len(m)) : SubSeq(msg, i + 1, i + Len(m)) = m

(***************************************************************************)
(* The kernel's socket table.                                              *)
(***************************************************************************)
\* The file a socket's bind() left in the file system: none here.
NoPath == <<>>

\* A descriptor as socket(family, ...) returns it.
NewFd(family, v6only_off) ==
  [open |-> TRUE, closes |-> 0, family |-> family, addr |-> NoAddr,
   reuseport |-> FALSE, dual |-> v6only_off, backlog |-> -1, path |-> NoPath]

\* close(fd): the descriptor is released and the kernel forgets its binding.
\* Nothing in the file unlinks the path of an AF_UNIX socket, so the file that
\* bind() created outlives the descriptor.
CloseFd(table, fd) ==
  [table EXCEPT ![fd] = [@ EXCEPT !.open = FALSE, !.closes = @ + 1,
                                  !.family = "AF_UNSPEC",
                                  !.addr = NoAddr, !.reuseport = FALSE,
                                  !.dual = FALSE, !.backlog = -1]]

\* The address family of the descriptor the factory makes for a mode: AF_INET
\* for DSMODE_IPV4, AF_INET6 for DSMODE_IPV6 and DSMODE_DUALSTACK, the
\* address's own family for DSMODE_NONE.
FamilyOfMode(dsmode, addr) ==
  CASE dsmode = "DSMODE_IPV4" -> "AF_INET"
    [] dsmode \in {"DSMODE_IPV6", "DSMODE_DUALSTACK"} -> "AF_INET6"
    [] OTHER -> addr.fam

NoClaim == [claims |-> FALSE, host |-> <<>>]

Claim(host) == [claims |-> TRUE, host |-> host]

\* The IPv4 addresses a bound socket receives on: those of an IPv4 address,
\* and, on a socket with IPV6_V6ONLY off, those of an IPv4-mapped address or
\* all of them for [::].
V4Claim(a, dual) ==
  IF a.fam = "AF_INET" THEN Claim(a.host)
  ELSE IF a.fam = "AF_INET6" /\ dual /\ ResolvedAddressIsV4Mapped(a)
    THEN Claim(SubSeq(a.host, 13, 16))
  ELSE IF a.fam = "AF_INET6" /\ dual /\ IsWildHost(a) THEN Claim(Zeros(4))
  ELSE NoClaim

\* The IPv6 addresses a bound socket receives on: none for an IPv4-mapped
\* address.
V6Claim(a) ==
  IF a.fam = "AF_INET6" /\ ~ResolvedAddressIsV4Mapped(a) THEN Claim(a.host)
  ELSE NoClaim

\* Two claims of one family meet: the same host, or either is the wildcard.
ClaimsMeet(c, d) ==
  /\ c.claims
  /\ d.claims
  /\ (c.host = d.host \/ c.host = Zeros(Len(c.host)) \/ d.host = Zeros(Len(d.host)))

\* Two listening sockets claim the same local endpoint.
AddrOverlap(a, aDual, b, bDual) ==
  /\ a.port = b.port
  /\ \/ ~IsIp(a) /\ a.fam = b.fam /\ a.host = b.host
     \/ ClaimsMeet(V4Claim(a, aDual), V4Claim(b, bDual))
     \/ ClaimsMeet(V6Claim(a), V6Claim(b))

\* The path of an AF_UNIX address, NoPath for any other address.
PathOf(addr) == IF addr.fam = "AF_UNIX" THEN addr.host ELSE NoPath

\* "/", the root directory.
RootPath == <<47>>

\* "/tmp/s", a name no file has when the process starts.
SocketPath == <<47, 116, 109, 112, 47, 115>>

\* The paths the file system holds when the process starts.
ExistingPaths == {RootPath}

\* The path is in the file system: it was there from the start, or some
\* socket, open or closed since, was bound to it.
PathExists(table, addr) ==
  /\ PathOf(addr) # NoPath
  /\ \/ PathOf(addr) \in ExistingPaths
     \/ \E i \in 1..Len(table) : table[i].path = PathOf(addr)

\* Socket i, another open socket of the table, is bound to an endpoint that
\* overlaps addr on socket fd.
Holds(table, i, fd, addr) ==
  /\ i # fd
  /\ table[i].open
  /\ table[i].addr # NoAddr
  /\ AddrOverlap(addr, table[fd].dual, table[i].addr, table[i].dual)

\* The ports the kernel may choose for a port-0 bind of addr: those on which
\* no other socket holds an overlapping endpoint.  SO_REUSEPORT does not make
\* a held port eligible for the kernel's own choice.
FreePorts(table, fd, addr) ==
  {p \in Ports :
     ~\E i \in 1..Len(table) : Holds(table, i, fd, [addr EXCEPT !.port = p])}

\* The port the kernel chooses for a port-0 bind: its search starts at
\* os.eport and takes the first free port, wrapping around; 0 if none is free.
KernelPort(table, fd, addr, os) ==
  LET free == FreePorts(table, fd, addr)
      Dist(p) == (p - os.eport + MaxPort) % MaxPort
  IN  IF free = {} THEN 0
      ELSE CHOOSE p \in free : \A q \in free : Dist(p) <= Dist(q)

\* EADDRINUSE: the path of an AF_UNIX address exists; for a port-0 bind, no
\* port is free; for any other, another open socket holds the endpoint and
\* the two do not both have SO_REUSEPORT.
BindConflict(table, fd, addr) ==
  \/ PathExists(table, addr)
  \/ IF IsIp(addr) /\ addr.port = 0
       THEN FreePorts(table, fd, addr) = {}
       ELSE \E i \in 1..Len(table) :
              /\ Holds(table, i, fd, addr)
              /\ ~(table[i].reuseport /\ table[fd].reuseport)

\* The local address a successful bind() gives the socket.
BoundAddr(table, fd, addr, os) ==
  IF IsIp(addr) /\ addr.port = 0
    THEN [addr EXCEPT !.port = KernelPort(table, fd, addr, os)]
    ELSE addr

\* EINVAL: an IPv4-mapped address on a socket that has IPV6_V6ONLY on.
MappedOnV6Only(table, fd, addr) ==
  ResolvedAddressIsV4Mapped(addr) /\ ~table[fd].dual

\* EAFNOSUPPORT: the address is not of the socket's family.
WrongFamily(table, fd, addr) == table[fd].family # addr.fam

\* bind(fd, addr): 0 or -1.
bind(table, fd, addr, os) ==
  IF \/ os.fail = "bind"
     \/ WrongFamily(table, fd, addr)
     \/ MappedOnV6Only(table, fd, addr)
     \/ BindConflict(table, fd, addr)
    THEN -1 ELSE 0

(***************************************************************************)
(* The accept-queue size (lines 100-130).                                  *)
(*                                                                         *)
(* /proc/sys/net/core/somaxconn is [present, line]: whether fopen()        *)
(* succeeds, and the characters of its first line (with the newline, if    *)
(* there is one).                                                          *)
(***************************************************************************)
\* <sys/socket.h> of the Linux build.
SOMAXCONN == 4096

INT_MAX == 2147483647

\* char buf[64], line 103.
BufSize == 64

Spaces(n) == [i \in 1..n |-> " "]

File(line) == [present |-> TRUE, line |-> line]

NoFile == [present |-> FALSE, line |-> <<>>]

\* The vertical tab, for which TLA+ strings have no escape.
VerticalTab == "\\v"

SomaxconnFiles ==
  { NoFile,
    File(<<>>),
    File(<<"0", "\n">>),
    File(<<"6", "4", "\n">>),
    File(<<"6", "4">>),
    File(<<"6", "4", "x", "\n">>),
    File(<<" ", "1", "0", "2", "4", "\n">>),
    File(<<"\f", "5", "\n">>),
    File(<<VerticalTab, "\t", "\r", "7", "\n">>),
    File(<<"-", "5", "\n">>),
    File(<<"2", "1", "4", "7", "4", "8", "3", "6", "4", "7", "\n">>),
    File(<<"2", "1", "4", "7", "4", "8", "3", "6", "4", "8", "\n">>),
    File(Spaces(BufSize - 3) \o <<"5", "\n">>),
    File(Spaces(BufSize - 2) \o <<"5", "\n">>) }

\* fgets(buf, sizeof buf, fp): the line up to and including its newline, at
\* most BufSize - 1 characters of it; null at end of file.
fgets(line) ==
  LET nl == {i \in 1..Len(line) : line[i] = "\n"}
      upto == IF nl = {} THEN Len(line)
              ELSE CHOOSE i \in nl : \A j \in nl : i <= j
      n  == IF upto < BufSize - 1 THEN upto ELSE BufSize - 1
  IN  [null |-> line = <<>>, buf |-> SubSeq(line, 1, n)]

\* The white space of the C locale, which strtol() skips.
isspace(c) == c \in {" ", "\t", "\n", VerticalTab, "\f", "\r"}

isdigit(c) == c \in {"0", "1", "2", "3", "4", "5", "6", "7", "8", "9"}

DigitValue(c) ==
  CASE c = "0" -> 0 [] c = "1" -> 1 [] c = "2" -> 2 [] c = "3" -> 3
    [] c = "4" -> 4 [] c = "5" -> 5 [] c = "6" -> 6 [] c = "7" -> 7
    [] c = "8" -> 8 [] c = "9" -> 9

\* The digits of buf from position k on: their value, whether it is beyond
\* INT_MAX, and the position after the last digit.
RECURSIVE ParseDigits(_, _, _, _)
ParseDigits(buf, k, acc, big) ==
  IF k > Len(buf) \/ ~isdigit(buf[k])
    THEN [value |-> acc, big |-> big, end |-> k]
    ELSE LET d == DigitValue(buf[k])
             over == big \/ acc > (INT_MAX - d) \div 10
         IN  ParseDigits(buf, k + 1, IF over THEN INT_MAX ELSE acc * 10 + d, over)

RECURSIVE SkipSpaces(_, _)
SkipSpaces(buf, k) ==
  IF k <= Len(buf) /\ isspace(buf[k]) THEN SkipSpaces(buf, k + 1) ELSE k

\* strtol(buf, &end, 10): [neg, value, big] is the number (big: its magnitude
\* is beyond INT_MAX), end the position of the first character not converted
\* (Len(buf) + 1 is the terminating NUL); with no digits, 0 and end = buf.
strtol(buf) ==
  LET start  == SkipSpaces(buf, 1)
      signed == start <= Len(buf) /\ buf[start] \in {"+", "-"}
      neg    == signed /\ buf[start] = "-"
      first  == IF signed THEN start + 1 ELSE start
      digits == ParseDigits(buf, first, 0, FALSE)
  IN  IF digits.end = first
        THEN [neg |-> FALSE, value |-> 0, big |-> FALSE, end |-> 1]
        ELSE [neg |-> neg, value |-> digits.value, big |-> digits.big,
              end |-> digits.end]

\* Line 113: i > 0 && i <= INT_MAX && end && *end == '\n'.
SomaxconnUsable(buf, i) ==
  /\ ~i.neg /\ (i.big \/ i.value > 0)
  /\ ~i.big
  /\ i.end <= Len(buf) /\ buf[i.end] = "\n"

\* Lines 101-125.
InitMaxAcceptQueueSize(file) ==
  IF ~file.present THEN SOMAXCONN                                  \* line 108
  ELSE LET got == fgets(file.line)
           i   == strtol(got.buf)
       IN  IF ~got.null /\ SomaxconnUsable(got.buf, i)
             THEN i.value                                          \* line 114
             ELSE SOMAXCONN                                        \* line 102

\* A static that is initialised again on every call.
StaticNeverInitialized(static) == FALSE

\* Line 128: the guard of the function-local static.
StaticIsInitialized(static) == static.initialized

\* The static before its initialiser has run.
NotInitialized == [initialized |-> FALSE, value |-> 0]

Initialized(value) == [initialized |-> TRUE, value |-> value]

\* Lines 127-130, for a caller no other thread races: the value returned,
\* which is also the static's value afterwards.
GetMaxAcceptQueueSize(static, file) ==
  IF StaticIsInitialized(static) THEN static.value
  ELSE InitMaxAcceptQueueSize(file)

(***************************************************************************)
(* PosixSocketWrapper, as far as this file uses it.                        *)
(***************************************************************************)
IsSocketReusePortSupported == platform.reuse_port_supported

\* The modes the dual-stack factory can report for an address: an IPv4
\* address gets an IPv4 socket; an IPv6 address gets an IPv6 socket, dual-stack
\* or not, and an IPv4 socket only if IPv4 can serve it (the wildcard, or an
\* IPv4-mapped address).
DSModesFor(addr) ==
  CASE addr.fam = "AF_INET"  -> {"DSMODE_IPV4"}
    [] addr.fam = "AF_INET6" ->
         {"DSMODE_IPV6", "DSMODE_DUALSTACK"} \cup
         (IF IsWildHost(addr) \/ ResolvedAddressIsV4Mapped(addr)
            THEN {"DSMODE_IPV4"} ELSE {})
    [] OTHER                 -> {"DSMODE_NONE"}

\* CreateDualStackSocket: a new descriptor and its mode, or an error.
CreateDualStackSocket(table, addr, os) ==
  IF os.create = "fail"
    THEN [status |-> ErrorFrom("socket"), fd |-> -1, dsmode |-> "DSMODE_NONE",
          fds |-> table]
    ELSE [status |-> OkStatus, fd |-> Len(table) + 1, dsmode |-> os.create,
          fds |-> Append(table, NewFd(FamilyOfMode(os.create, addr),
                                      os.create = "DSMODE_DUALSTACK"))]

(***************************************************************************)
(* PrepareSocket (lines 133-205).                                          *)
(*                                                                         *)
(* os is what the kernel answers to this socket's calls:                   *)
(*   os.create        the factory's result ("fail" or a DSMode)            *)
(*   os.fail          the fatal call that fails first, or "none"           *)
(*   os.zerocopy      whether SO_ZEROCOPY can be enabled                   *)
(*   os.user_timeout  whether TCP_USER_TIMEOUT can be set                  *)
(*   os.eport         the port the kernel picks for a port-0 bind          *)
(***************************************************************************)
\* A default-constructed ListenerSocket holding descriptor fd.
ListenerSocket(fd, addr, dsmode) ==
  [sock |-> fd, addr |-> addr, dsmode |-> dsmode,
   zero_copy_enabled |-> FALSE, port |-> 0]

NoSocket == ListenerSocket(-1, NoAddr, "DSMODE_NONE")

\* The same calls with listen() ahead of bind().
PrepareStepsListenBeforeBind ==
  << "SetSocketReusePort", "SetSocketZeroCopy", "SetSocketNonBlocking",
     "SetSocketCloexec", "SetSocketLowLatency", "SetSocketReuseAddr",
     "SetSocketDscp", "TrySetSocketTcpUserTimeout",
     "SetSocketNoSigpipeIfPossible", "ApplySocketMutatorInOptions",
     "listen", "bind", "getsockname" >>

\* The calls PrepareSocket makes on the socket, in program order.
PrepareSteps ==
  << "SetSocketReusePort",            \* line 149
     "SetSocketZeroCopy",             \* line 153
     "SetSocketNonBlocking",          \* line 161
     "SetSocketCloexec",              \* line 162
     "SetSocketLowLatency",           \* line 166
     "SetSocketReuseAddr",            \* line 167
     "SetSocketDscp",                 \* line 168
     "TrySetSocketTcpUserTimeout",    \* line 169
     "SetSocketNoSigpipeIfPossible",  \* line 171
     "ApplySocketMutatorInOptions",   \* line 172
     "bind",                          \* line 175
     "listen",                        \* line 188
     "getsockname" >>                 \* line 194

StepIndex(step) == CHOOSE i \in 1..Len(PrepareSteps) : PrepareSteps[i] = step

\* The condition under which the code makes the call at all.
StepApplies(step, opts, socket) ==
  CASE step = "SetSocketReusePort" ->
         /\ IsSocketReusePortSupported
         /\ opts.allow_reuse_port
         /\ socket.addr.fam # "AF_UNIX"
         /\ ~ResolvedAddressIsVSock(socket.addr)
    [] step = "SetSocketZeroCopy" -> platform.linux_errqueue
    [] step \in {"SetSocketLowLatency", "SetSocketReuseAddr", "SetSocketDscp",
                 "TrySetSocketTcpUserTimeout"} ->
         /\ socket.addr.fam # "AF_UNIX"
         /\ ~ResolvedAddressIsVSock(socket.addr)
    [] OTHER -> TRUE

\* Every call's failure returned to the caller.
EveryStepIsFatal(step) == TRUE

\* The status of SetSocketNoSigpipeIfPossible dropped like the two logged ones.
NoSigpipeIsNotFatal(step) ==
  step \notin {"SetSocketZeroCopy", "TrySetSocketTcpUserTimeout",
               "SetSocketNoSigpipeIfPossible"}

\* A call whose failure makes PrepareSocket return (GRPC_RETURN_IF_ERROR, or
\* an explicit return): every call but the two whose result is only logged.
StepIsFatal(step) ==
  step \notin {"SetSocketZeroCopy", "TrySetSocketTcpUserTimeout"}

\* The socket table once the option setters before bind() have run.
AfterOptions(table, opts, socket) ==
  IF StepApplies("SetSocketReusePort", opts, socket)
    THEN [table EXCEPT ![socket.sock].reuseport = TRUE]
    ELSE table

\* The socket table once bind() has succeeded: the socket has its local
\* address, and an AF_UNIX path is in the file system.
Bound(table, opts, socket, os) ==
  [AfterOptions(table, opts, socket) EXCEPT
     ![socket.sock].addr = BoundAddr(table, socket.sock, socket.addr, os),
     ![socket.sock].path = PathOf(socket.addr)]

StepFails(step, opts, socket, table, os) ==
  CASE step = "SetSocketZeroCopy" -> ~os.zerocopy
    [] step = "TrySetSocketTcpUserTimeout" -> ~os.user_timeout
    [] step = "bind" ->
         bind(AfterOptions(table, opts, socket), socket.sock, socket.addr, os) < 0
    [] OTHER -> os.fail = step

\* Index of the first call that makes PrepareSocket return early; 0 if none.
RECURSIVE FirstFailure(_, _, _, _, _)
FirstFailure(i, opts, socket, table, os) ==
  IF i > Len(PrepareSteps) THEN 0
  ELSE IF /\ StepApplies(PrepareSteps[i], opts, socket)
          /\ StepIsFatal(PrepareSteps[i])
          /\ StepFails(PrepareSteps[i], opts, socket, table, os)
         THEN i
         ELSE FirstFailure(i + 1, opts, socket, table, os)

\* The status returned when the call PrepareSteps[i] fails.
PrepareError(i, socket) ==
  CASE PrepareSteps[i] = "bind" ->
         FailedPreconditionError(
           << Part("Error in bind for address '"),
              ResolvedAddressToString(socket.addr),
              Part("': "), Part("strerror(errno)") >>)
    [] PrepareSteps[i] = "listen" ->
         FailedPreconditionError(<< Part("Error in listen: "), Part("strerror(errno)") >>)
    [] PrepareSteps[i] = "getsockname" ->
         FailedPreconditionError(
           << Part("Error in getsockname: "), Part("strerror(errno)") >>)
    [] OTHER -> ErrorFrom(PrepareSteps[i])

\* A cleanup that never runs: the descriptor leaks on every early return.
SockCleanupNeverCloses(close_fd, fd) == FALSE

\* The sock_cleanup lambda of lines 141-145.
SockCleanupCloses(close_fd, fd) == close_fd /\ fd >= 0

\* The port read from the address the caller asked for instead of from what
\* getsockname() reported.
PortOfRequestedAddr(socket, sockname_temp) == ResolvedAddressGetPort(socket.addr)

\* Lines 200-201: socket.port is the port of the name getsockname() reported.
PortOfSockname(socket, sockname_temp) == ResolvedAddressGetPort(sockname_temp)

\* The element of a one-element set.
TheOne(S) == CHOOSE x \in S : TRUE

\* Returns the status, the socket as mutated in place, the socket table
\* afterwards and the calls made (in order), f being the index of the call
\* that failed or 0.
PrepareSocketUpTo(f, opts, socket, table, os) ==
  LET fd      == socket.sock
      last    == IF f = 0 THEN Len(PrepareSteps) ELSE f
      Made(s) == StepApplies(s, opts, socket)
      calls   == SelectSeq(SubSeq(PrepareSteps, 1, last), Made)
      zc      == /\ Made("SetSocketZeroCopy")
                 /\ StepIndex("SetSocketZeroCopy") <= last
                 /\ (f = 0 \/ f > StepIndex("SetSocketZeroCopy"))
                 /\ os.zerocopy
      \* line 203 is reached only when nothing failed
      close_fd == f # 0
      \* line 188: the backlog is evaluated when listen() is called
      listens == f = 0 \/ f >= StepIndex("listen")
      backlog == GetMaxAcceptQueueSize(kMaxAcceptQueueSize, sizer.somaxconn)
      named   == Bound(table, opts, socket, os)
      bound   == [named EXCEPT ![fd].backlog = backlog]
      \* a failure after bind() leaves what bind() did
      failed  == IF f > StepIndex("bind") THEN named ELSE table
      sockname_temp == bound[fd].addr
  IN  [status |-> IF f = 0 THEN OkStatus ELSE PrepareError(f, socket),
       socket |-> [socket EXCEPT
                     !.zero_copy_enabled = zc,
                     !.port = IF f = 0 THEN PortOfSockname(socket, sockname_temp)
                                       ELSE 0],
       fds    |-> IF f = 0 THEN bound
                  ELSE IF SockCleanupCloses(close_fd, fd) THEN CloseFd(failed, fd)
                  ELSE failed,
       queue  |-> IF listens THEN Initialized(backlog) ELSE kMaxAcceptQueueSize,
       \* line 188 runs the static's initialiser if nothing has run it yet
       init_runs |-> IF listens /\ ~StaticIsInitialized(kMaxAcceptQueueSize)
                       THEN 1 ELSE 0,
       calls  |-> calls]

\* PrepareSocket (lines 133-205): the calls up to the first one that fails,
\* or all of them.
PrepareSocket(opts, socket, table, os) ==
  TheOne({PrepareSocketUpTo(f, opts, socket, table, os) :
            f \in {FirstFailure(1, opts, socket, table, os)}})

(***************************************************************************)
(* CreateAndPrepareListenerSocket (lines 209-228).                         *)
(***************************************************************************)
\* Lines 214-221: the ListenerSocket handed to PrepareSocket.
SocketOf(result, addr) ==
  ListenerSocket(result.fd,
                 IF /\ result.dsmode = "DSMODE_IPV4"
                    /\ ResolvedAddressIsV4Mapped(addr)
                   THEN V4MappedToV4(addr)
                   ELSE addr,
                 result.dsmode)

CreateAndPrepareListenerSocket(opts, addr, table, os) ==
  LET result == CreateDualStackSocket(table, addr, os)
  IN  IF ~result.status.ok
        THEN [status |-> result.status, socket |-> NoSocket, fd |-> -1,
              dsmode |-> "DSMODE_NONE", fds |-> table, crashed |-> FALSE,
              calls |-> <<>>, queue |-> kMaxAcceptQueueSize, init_runs |-> 0,
              port_at_return |-> 0]
        ELSE
          LET socket == SocketOf(result, addr)
          IN  TheOne(
                {[status  |-> p.status,
                  socket  |-> IF p.status.ok THEN p.socket ELSE NoSocket,
                  fd      |-> result.fd,
                  \* socket.dsmode as the factory set it, line 214
                  dsmode  |-> result.dsmode,
                  fds     |-> p.fds,
                  \* CHECK_GT(socket.port, 0), line 226
                  crashed |-> p.status.ok /\ ~(p.socket.port > 0),
                  calls   |-> p.calls,
                  queue   |-> p.queue,
                  init_runs |-> p.init_runs,
                  \* socket.port as PrepareSocket left it in its in-out parameter
                  port_at_return |-> p.socket.port] :
                 p \in {PrepareSocket(opts, socket, result.fds, os)}})

(***************************************************************************)
(* What the kernel may answer.                                             *)
(***************************************************************************)
\* The calls whose failure os.fail draws; the outcomes of SetSocketZeroCopy and
\* TrySetSocketTcpUserTimeout are os.zerocopy and os.user_timeout.
FatalSteps ==
  {PrepareSteps[i] : i \in 1..Len(PrepareSteps)}
    \ {"SetSocketZeroCopy", "TrySetSocketTcpUserTimeout"}

EPortsFor(addr) == IF IsIp(addr) /\ addr.port = 0 THEN Ports ELSE {1}

\* Every answer to one create-and-prepare attempt on addr whose first fatal
\* failure is in `points`.
OsOutcomes(addr, points, flags) ==
  {[create |-> "fail", fail |-> "none", zerocopy |-> FALSE,
    user_timeout |-> FALSE, eport |-> 1]}
  \cup {[create |-> t[1], fail |-> t[2], zerocopy |-> t[3],
          user_timeout |-> t[4], eport |-> t[5]] :
          t \in DSModesFor(addr) \X (points \cup {"none"}) \X flags \X flags
                  \X EPortsFor(addr)}

(***************************************************************************)
(* Addresses a caller passes to CreateAndPrepareListenerSocket directly.   *)
(***************************************************************************)
Host4 == <<10, 0, 0, 1>>
Host4LinkLocal == <<169, 254, 1, 1>>
Host6 == <<32, 1, 13, 184>> \o Zeros(11) \o <<1>>
Host6LinkLocal == <<254, 128>> \o Zeros(13) \o <<1>>
Host6Mapped == Zeros(10) \o <<255, 255>> \o Host4

DirectAddrs ==
  {[fam |-> "AF_INET", host |-> Host4, port |-> p] : p \in 0..MaxPort}
  \cup {[fam |-> "AF_INET6", host |-> h, port |-> p] :
          h \in {Host6, Host6Mapped}, p \in 0..MaxPort}
  \cup {[fam |-> "AF_UNIX", host |-> RootPath, port |-> 0],
        [fam |-> "AF_UNIX", host |-> SocketPath, port |-> 0],
        [fam |-> "AF_VSOCK", host |-> <<2>>, port |-> 0]}

Platforms ==
  [has_ifaddrs : BOOLEAN, reuse_port_supported : BOOLEAN, linux_errqueue : BOOLEAN]

TcpOptions ==
  [allow_reuse_port : BOOLEAN, expand_wildcard_addrs : BOOLEAN,
   exclude_link_local_addresses : BOOLEAN]

NoFrame == [op |-> "none"]
NoRet == [op |-> "none"]

\* sizer after a call that ran the static's initialiser `runs` times.
InitialiserRan(runs) == [sizer EXCEPT !.inits = @ + runs]

\* What a caller of CreateAndPrepareListenerSocket has in hand afterwards.
DirectRet(addr, os, r) ==
  [op |-> "CreateAndPrepareListenerSocket", addr |-> addr,
   status |-> r.status, socket |-> r.socket, fd |-> r.fd,
   calls |-> r.calls, os |-> os, port_at_return |-> r.port_at_return]

(***************************************************************************)
(* Line 188 as a caller of CreateAndPrepareListenerSocket goes through it. *)
(* listen(fd, GetMaxAcceptQueueSize()) evaluates its argument first, and   *)
(* the static of line 128 has the compiler's guard: the caller arrives     *)
(* with its socket bound and not listening, runs the initialiser if no     *)
(* thread has, waits while another thread is inside it, and calls listen() *)
(* once the static has its value.                                          *)
(***************************************************************************)
Threads == 1..MaxThreads

ThreadAt(t, at) == sizer.threads[t].pc = at

ThreadGoes(t, to) == [sizer EXCEPT !.threads[t].pc = to]

\* Some thread holds the static's guard: it is inside InitMaxAcceptQueueSize.
GuardHeld == pc = "listen_init" \/ \E u \in Threads : ThreadAt(u, "init")

\* Nobody is inside a call of CreateAndPrepareListenerSocket.
NoCaller == [who |-> "none"]

\* The call gets as far as line 188: the factory and every call before
\* listen() succeed.
ReachesListen(opts, addr, table, os) ==
  LET result == CreateDualStackSocket(table, addr, os)
  IN  /\ result.status.ok
      /\ \E f \in {FirstFailure(1, opts, SocketOf(result, addr), result.fds, os)} :
           f = 0 \/ f >= StepIndex("listen")

\* The socket table when line 188 is reached: the socket created, its options
\* set, bound, not listening.
BoundNotListening(opts, addr, table, os) ==
  LET result == CreateDualStackSocket(table, addr, os)
  IN  Bound(result.fds, opts, SocketOf(result, addr), os)

\* Lines 209-187 of a call that reaches line 188: `who` is the caller, table
\* the socket table the call started from.
ArriveAtListen(who, addr, os) ==
  /\ fds' = BoundNotListening(options, addr, fds, os)
  /\ sizer' = [sizer EXCEPT !.caller = [who |-> who, addr |-> addr, os |-> os,
                                        table |-> fds]]
  /\ pc' = "listen_guard"
  /\ UNCHANGED <<platform, options, listener_sockets, host_ifaddrs,
                 is_ipv4_available, frame, ret, kMaxAcceptQueueSize>>

\* Line 188 -> 128, the guard: skip the initialiser, take it, or wait for
\* the thread that has it.
PrepareSocket_Guard ==
  /\ pc = "listen_guard"
  /\ IF StaticIsInitialized(kMaxAcceptQueueSize)
       THEN pc' = "listen"
       ELSE /\ ~GuardHeld
            /\ pc' = "listen_init"
  /\ UNCHANGED <<sizer, platform, options, fds, listener_sockets, host_ifaddrs,
                 is_ipv4_available, frame, ret, ncalls, kMaxAcceptQueueSize>>

\* Line 128, the initialiser, run by the caller.
PrepareSocket_Init ==
  /\ pc = "listen_init"
  /\ kMaxAcceptQueueSize' = Initialized(InitMaxAcceptQueueSize(sizer.somaxconn))
  /\ sizer' = InitialiserRan(1)
  /\ pc' = "listen"
  /\ UNCHANGED <<platform, options, fds, listener_sockets, host_ifaddrs,
                 is_ipv4_available, frame, ret, ncalls>>

\* The caller `who` is about to call listen().
AtListen(who) == pc = "listen" /\ sizer.caller.who = who

\* sizer once a call of CreateAndPrepareListenerSocket has returned.
CallReturned(runs) == [InitialiserRan(runs) EXCEPT !.caller = NoCaller]

(***************************************************************************)
(* A caller invokes CreateAndPrepareListenerSocket on one address.         *)
(***************************************************************************)
\* The whole call, started from `table`, and what the caller has afterwards.
CreateAndPrepareReturns(addr, os, table) ==
  /\ \E r \in {CreateAndPrepareListenerSocket(options, addr, table, os)} :
         /\ fds' = r.fds
         /\ kMaxAcceptQueueSize' = r.queue
         /\ sizer' = CallReturned(r.init_runs)
         /\ ret' = DirectRet(addr, os, r)
         /\ pc' = IF r.crashed THEN "crashed" ELSE "idle"
  /\ UNCHANGED <<platform, options, listener_sockets, host_ifaddrs,
                 is_ipv4_available, frame>>

\* Lines 209-187: a call that fails before listen() closes the descriptor and
\* returns without touching the static; any other arrives at line 188.
CallCreateAndPrepare(addr, os) ==
  /\ pc = "idle"
  /\ ncalls.direct < MaxDirectCalls
  /\ ncalls' = [ncalls EXCEPT !.direct = @ + 1]
  /\ IF ReachesListen(options, addr, fds, os)
       THEN ArriveAtListen("direct", addr, os)
       ELSE CreateAndPrepareReturns(addr, os, fds)

\* Lines 188-204: listen() with the static's value, getsockname(), return.
PrepareSocket_Listen ==
  /\ AtListen("direct")
  /\ CreateAndPrepareReturns(sizer.caller.addr, sizer.caller.os,
                             sizer.caller.table)
  /\ UNCHANGED ncalls

\* Nobody has asked for the accept-queue size yet; somaxconn holds `file`.
SizerInit(file) ==
  [somaxconn |-> file,
   threads |-> [t \in 1..MaxThreads |-> [pc |-> "idle", gets |-> 0]],
   inits |-> 0, returned |-> {}, changes |-> 0, caller |-> NoCaller]

\* somaxconn as the kernel ships it.
DefaultSomaxconn == File(<<"4", "0", "9", "6", "\n">>)

InitCommon ==
  /\ fds = <<>>
  /\ listener_sockets = <<>>
  /\ host_ifaddrs = [known |-> FALSE, ifa |-> <<>>]
  /\ is_ipv4_available = "uninit"
  /\ pc = "idle"
  /\ frame = NoFrame
  /\ ret = NoRet
  /\ ncalls = [direct |-> 0, container |-> 0]
  /\ kMaxAcceptQueueSize = NotInitialized

\* One listener's configuration on any build; only allow_reuse_port is read
\* on this path.
InitPrepare ==
  /\ platform \in {p \in Platforms : p.has_ifaddrs}
  /\ options \in {o \in TcpOptions : ~o.expand_wildcard_addrs
                                     /\ ~o.exclude_link_local_addresses}
  /\ sizer = SizerInit(DefaultSomaxconn)
  /\ InitCommon

CreateAndPrepareListenerSocket_Call ==
  \E addr \in DirectAddrs :
    \E os \in OsOutcomes(addr, FatalSteps, BOOLEAN) :
      CallCreateAndPrepare(addr, os)

NextPrepare ==
  \/ CreateAndPrepareListenerSocket_Call
  \/ PrepareSocket_Guard
  \/ PrepareSocket_Init
  \/ PrepareSocket_Listen

SpecPrepare == InitPrepare /\ [][NextPrepare]_vars

(***************************************************************************)
(* IsSockAddrLinkLocal (lines 230-254).                                    *)
(***************************************************************************)
kV4LinkLocalPrefix == <<169, 254>>   \* {0xa9, 0xfe}
kV6LinkLocalPrefix == <<254, 128>>   \* {0xfe, 0x80}

RECURSIVE BitAnd(_, _)
BitAnd(x, y) ==
  IF x = 0 \/ y = 0 THEN 0
  ELSE (x % 2) * (y % 2) + 2 * BitAnd(x \div 2, y \div 2)

\* The shift of line 245.
LinkLocalShift == 22

\* The mask of a /16 prefix.
MaskBitOfSlash16(k) == k >= 16 /\ k < 32

\* Bit k (0 = least significant) of mask = (~(uint32_t)0) << 22: the bits
\* shifted out at the top are lost, the low 22 are zero.
MaskBit(k) == k >= LinkLocalShift /\ k < 32

\* Byte i (1..4) of htonl(mask) as it lies in memory: most significant first.
RECURSIVE HtonlMaskBits(_, _)
HtonlMaskBits(i, b) ==
  IF b > 7 THEN 0
  ELSE (IF MaskBit(8 * (4 - i) + b) THEN 2 ^ b ELSE 0) + HtonlMaskBits(i, b + 1)

HtonlMaskByte(i) == HtonlMaskBits(i, 0)

IsSockAddrLinkLocal(addr) ==
  IF addr.fam = "AF_INET"
    THEN SubSeq(addr.host, 1, Len(kV4LinkLocalPrefix)) = kV4LinkLocalPrefix
  ELSE IF addr.fam = "AF_INET6"
    THEN LET first32bits ==
               [i \in 1..4 |-> BitAnd(addr.host[i], HtonlMaskByte(i))]
         IN  SubSeq(first32bits, 1, Len(kV6LinkLocalPrefix)) = kV6LinkLocalPrefix
  ELSE FALSE

\* Addresses handed to IsSockAddrLinkLocal: both prefixes, their neighbours
\* bit by bit, and the same bytes under families it does not know.
LinkLocalInputs ==
  {[fam |-> "AF_INET", host |-> <<b1, b2, 1, 1>>, port |-> 0] :
     b1 \in {169, 168, 170, 10, 254, 0}, b2 \in {254, 253, 255, 128, 0, 1}}
  \cup {[fam |-> "AF_INET6", host |-> <<b1, b2>> \o Zeros(13) \o <<1>>,
          port |-> 0] :
          b1 \in {254, 255, 252, 126, 32},
          b2 \in {128, 129, 160, 191, 192, 255, 64, 127, 0, 1, 254, 184}}
  \cup {[fam |-> "AF_INET", host |-> Host4, port |-> 0],
        [fam |-> "AF_INET", host |-> Host4LinkLocal, port |-> 0],
        [fam |-> "AF_INET6", host |-> Host6, port |-> 0],
        [fam |-> "AF_INET6", host |-> Host6LinkLocal, port |-> 0]}
  \cup {[fam |-> f, host |-> h, port |-> 0] :
          f \in {"AF_UNIX", "AF_VSOCK", "AF_PACKET", "AF_UNSPEC"},
          h \in {Host4LinkLocal, Host6LinkLocal}}

CallIsSockAddrLinkLocal(addr) ==
  /\ pc = "idle"
  /\ ret' = [op |-> "IsSockAddrLinkLocal", addr |-> addr,
             result |-> IsSockAddrLinkLocal(addr)]
  /\ UNCHANGED <<sizer, platform, options, fds, listener_sockets, host_ifaddrs,
                 is_ipv4_available, pc, frame, ncalls, kMaxAcceptQueueSize>>

InitLinkLocal ==
  /\ platform \in {p \in Platforms : p.has_ifaddrs /\ p.reuse_port_supported
                                     /\ p.linux_errqueue}
  /\ options \in {o \in TcpOptions : ~o.expand_wildcard_addrs
                                     /\ o.exclude_link_local_addresses
                                     /\ ~o.allow_reuse_port}
  /\ sizer = SizerInit(DefaultSomaxconn)
  /\ InitCommon

NextLinkLocal == \E addr \in LinkLocalInputs : CallIsSockAddrLinkLocal(addr)

SpecLinkLocal == InitLinkLocal /\ [][NextLinkLocal]_vars

(***************************************************************************)
(* The ListenerSocketsContainer: append, and lookup by address content.    *)
(***************************************************************************)
Find(container, addr) ==
  \E i \in 1..Len(container) : container[i].addr = addr

ContainerAppend(container, socket) == Append(container, socket)

(***************************************************************************)
(* GetUnusedPort (lines 63-90).                                            *)
(***************************************************************************)
SystemHasIfAddrs == platform.has_ifaddrs

\* The throwaway socket closed on the successful path only.
PickerCloseOnSuccessOnly(table, fd, path) ==
  IF path = "ok" THEN CloseFd(table, fd) ELSE table

\* Lines 73, 80 and 84: close(sock->Fd()) on each path past the factory.
PickerClose(table, fd, path) == CloseFd(table, fd)

\* os.no_port: getsockname() succeeds and fills in a name whose port is 0,
\* the answer line 86 tests for.
GetUnusedPort(table, os) ==
  LET wild0 == ResolvedAddressMakeWild6(0)
      sock  == CreateDualStackSocket(table, wild0, os)
  IN  IF ~sock.status.ok
        THEN [status |-> sock.status, port |-> 0, fds |-> table]
        ELSE
          LET wild == IF sock.dsmode = "DSMODE_IPV4"
                        THEN ResolvedAddressMakeWild4(0) ELSE wild0
              closed(path) == PickerClose(sock.fds, sock.fd, path)
              sockname == IF os.no_port THEN wild
                          ELSE BoundAddr(sock.fds, sock.fd, wild, os)
              port == ResolvedAddressGetPort(sockname)
          IN  IF bind(sock.fds, sock.fd, wild, os) # 0
                THEN [status |-> FailedPreconditionError(
                                   << Part("bind(GetUnusedPort): "),
                                      Part("strerror(errno)") >>),
                      port |-> 0, fds |-> closed("bind")]
              ELSE IF os.fail = "getsockname"
                THEN [status |-> FailedPreconditionError(
                                   << Part("getsockname(GetUnusedPort): "),
                                      Part("strerror(errno)") >>),
                      port |-> 0, fds |-> closed("getsockname")]
              ELSE IF port <= 0
                THEN [status |-> FailedPreconditionError(<< Part("Bad port") >>),
                      port |-> 0, fds |-> closed("ok")]
              ELSE [status |-> OkStatus, port |-> port, fds |-> closed("ok")]

\* What the kernel may answer to the port picker's throwaway socket.
PickOutcomes ==
  {[create |-> "fail", fail |-> "none", zerocopy |-> FALSE,
    user_timeout |-> FALSE, eport |-> 1, no_port |-> FALSE]}
  \cup {[create |-> t[1], fail |-> t[2], zerocopy |-> FALSE,
          user_timeout |-> FALSE, eport |-> t[3], no_port |-> FALSE] :
          t \in DSModesFor(ResolvedAddressMakeWild6(0))
                  \X {"none", "bind", "getsockname"} \X Ports}
  \cup {[create |-> d, fail |-> "none", zerocopy |-> FALSE,
          user_timeout |-> FALSE, eport |-> 1, no_port |-> TRUE] :
          d \in DSModesFor(ResolvedAddressMakeWild6(0))}

\* GetUnusedPort has not been called.
NotPicked == [called |-> FALSE, fd |-> 0, status |-> OkStatus, port |-> 0]

(***************************************************************************)
(* What getifaddrs() can report: an entry with a null ifa_addr, one of a   *)
(* family that is neither AF_INET nor AF_INET6, an IPv4 address, a         *)
(* link-local IPv6 address and the IPv4-mapped IPv6 form of the IPv4       *)
(* address.  Interface addresses carry port 0.  The list is a fact of the  *)
(* host: every call of one run reads the same list.                        *)
(***************************************************************************)
IfaAddrs ==
  { NoAddr,
    [fam |-> "AF_PACKET", host |-> <<>>, port |-> 0],
    [fam |-> "AF_INET", host |-> Host4, port |-> 0],
    [fam |-> "AF_INET6", host |-> Host6LinkLocal, port |-> 0],
    [fam |-> "AF_INET6", host |-> Host6Mapped, port |-> 0] }

\* The empty list is getifaddrs() succeeding with ifa == nullptr.
IfaLists == UNION {[1..n -> IfaAddrs] : n \in 0..MaxIfaces}

\* getifaddrs(&ifa): its return code and the list.
GetIfAddrsFails == [rc |-> -1, ifa |-> <<>>]

GetIfAddrsOutcomes ==
  {GetIfAddrsFails} \cup
  {[rc |-> 0, ifa |-> l] :
     l \in IF host_ifaddrs.known THEN {host_ifaddrs.ifa} ELSE IfaLists}

\* getifaddrs() has not been called.
NotRead == [called |-> FALSE, rc |-> 0]

(***************************************************************************)
(* ListenerContainerAddAllLocalAddresses (lines 256-340).                  *)
(***************************************************************************)
Return(r) ==
  /\ ret' = r
  /\ pc' = "idle"
  /\ frame' = NoFrame

\* What a call of the enumerator returns, and what it did: f is its frame,
\* verdict the status and value returned.
EnumRet(f, verdict) ==
  [op |-> f.op, via |-> f.via, port |-> f.port, before |-> f.before,
   nfds |-> f.nfds, pick |-> f.pick, shared_port |-> f.requested_port,
   getifaddrs |-> f.getifaddrs, ifa |-> f.ifa, attempts |-> f.attempts,
   skipped |-> f.skipped] @@ verdict

\* Lines 256-264: the call is entered.  `via` is "direct" for a caller's call
\* and "wildcard" for the delegation of line 352.
AddAllLocalEnter(via, port) ==
  /\ pc = "idle"
  /\ ncalls.container < MaxCalls
  /\ SystemHasIfAddrs
  /\ ncalls' = [ncalls EXCEPT !.container = @ + 1]
  /\ frame' = [op |-> "ListenerContainerAddAllLocalAddresses", via |-> via,
               port |-> port, before |-> listener_sockets, nfds |-> Len(fds),
               pick |-> NotPicked, requested_port |-> port,
               getifaddrs |-> NotRead, ifa |-> <<>>, ifa_it |-> 1,
               op_status |-> OkStatus, no_local_addresses |-> TRUE,
               assigned_port |-> 0, attempts |-> <<>>, skipped |-> {}]
  /\ pc' = IF port = 0 THEN "enum_pick" ELSE "enum_getifaddrs"
  /\ ret' = NoRet
  /\ UNCHANGED <<sizer, platform, options, fds, listener_sockets, host_ifaddrs,
                 is_ipv4_available, kMaxAcceptQueueSize>>

ListenerContainerAddAllLocalAddresses_Call ==
  \E port \in RequestPorts : AddAllLocalEnter("direct", port)

\* Lines 265-270: the port picker, for a caller who asked for port 0.
AddAllLocalPick(pick) ==
  /\ pc = "enum_pick"
  /\ \E picked \in {GetUnusedPort(fds, pick)} :
       LET f == [frame EXCEPT
                   !.pick = [called |-> TRUE,
                             fd |-> IF Len(picked.fds) > Len(fds)
                                      THEN Len(fds) + 1 ELSE 0,
                             status |-> picked.status, port |-> picked.port],
                   !.requested_port = picked.port]
       IN  /\ fds' = picked.fds
           /\ IF picked.status.ok
                THEN /\ frame' = f
                     /\ pc' = "enum_getifaddrs"
                     /\ UNCHANGED ret
                ELSE Return(EnumRet(f, [status |-> picked.status, value |-> 0]))
  /\ UNCHANGED <<sizer, platform, options, listener_sockets, host_ifaddrs,
                 is_ipv4_available, ncalls, kMaxAcceptQueueSize>>

ListenerContainerAddAllLocalAddresses_Pick ==
  \E pick \in PickOutcomes : AddAllLocalPick(pick)

\* Lines 271-274: getifaddrs(); got is what it hands back.
AddAllLocalGetIfAddrs(got) ==
  /\ pc = "enum_getifaddrs"
  /\ LET f == [frame EXCEPT !.getifaddrs = [called |-> TRUE, rc |-> got.rc],
                            !.ifa = got.ifa]
     IN  IF got.rc # 0 \/ got.ifa = <<>>
           THEN Return(EnumRet(f, [status |-> FailedPreconditionError(
                                                << Part("getifaddrs: "),
                                                   Part("strerror(errno)") >>),
                                   value |-> 0]))
           ELSE /\ frame' = f
                /\ pc' = "enum_static_guard"
                /\ UNCHANGED ret
  /\ host_ifaddrs' = IF got.rc = 0 THEN [known |-> TRUE, ifa |-> got.ifa]
                     ELSE host_ifaddrs
  /\ UNCHANGED <<sizer, platform, options, fds, listener_sockets,
                 is_ipv4_available, ncalls, kMaxAcceptQueueSize>>

ListenerContainerAddAllLocalAddresses_GetIfAddrs ==
  \E got \in GetIfAddrsOutcomes : AddAllLocalGetIfAddrs(got)

\* Line 276, the guard of the function-local static: the initialiser is run
\* by the first call that gets here and skipped by every later one.
ListenerContainerAddAllLocalAddresses_Guard ==
  /\ pc = "enum_static_guard"
  /\ pc' = IF is_ipv4_available = "uninit" THEN "enum_static_init"
           ELSE "enum_loop"
  /\ UNCHANGED <<sizer, platform, options, fds, listener_sockets, host_ifaddrs,
                 is_ipv4_available, frame, ret, ncalls, kMaxAcceptQueueSize>>

\* Lines 276-280, the initialiser: socket(AF_INET, SOCK_DGRAM, 0), closed at
\* once if it was created.
ListenerContainerAddAllLocalAddresses_Init ==
  /\ pc = "enum_static_init"
  /\ \E probe \in {"yes", "no"} :
       /\ is_ipv4_available' = probe
       /\ fds' = IF probe = "yes"
                   THEN CloseFd(Append(fds, NewFd("AF_INET", FALSE)), Len(fds) + 1)
                   ELSE fds
  /\ pc' = "enum_loop"
  /\ UNCHANGED <<sizer, platform, options, listener_sockets, host_ifaddrs,
                 frame, ret, ncalls, kMaxAcceptQueueSize>>

\* The #else branch, lines 334-338: grpc_core::Crash.
AddAllLocalUnsupported(via) ==
  /\ pc = "idle"
  /\ ncalls.container < MaxCalls
  /\ ~SystemHasIfAddrs
  /\ pc' = "crashed"
  /\ ret' = [op |-> "ListenerContainerAddAllLocalAddresses", via |-> via,
             crash |-> "System does not support ifaddrs"]
  /\ ncalls' = [ncalls EXCEPT !.container = @ + 1]
  /\ UNCHANGED <<sizer, platform, options, fds, listener_sockets, host_ifaddrs,
                 is_ipv4_available, frame, kMaxAcceptQueueSize>>

ListenerContainerAddAllLocalAddresses_Unsupported == AddAllLocalUnsupported("direct")

\* The lookup left out: every address counts as new.
NeverDuplicate(container, addr) == FALSE

\* Line 310: listener_sockets.Find(addr).ok()
IsDuplicate(container, addr) == Find(container, addr)

\* The interface address as getifaddrs() reports it, its port never set.
CurrentAddrPortUnset == frame.ifa[frame.ifa_it]

\* The address of the interface entry under ifa_it with the shared port set
\* (lines 298-299).
CurrentAddr == ResolvedAddressSetPort(frame.ifa[frame.ifa_it], frame.requested_port)

\* Why the loop body `continue`s on the current entry, or "no".
SkipReason ==
  LET ifa_addr == frame.ifa[frame.ifa_it]
  IN  IF ifa_addr = NoAddr THEN "null"                          \* line 286
      ELSE IF ifa_addr.fam = "AF_INET" /\ is_ipv4_available # "yes"
        THEN "no_ipv4"                                          \* line 289
      ELSE IF ifa_addr.fam \notin {"AF_INET", "AF_INET6"}
        THEN "family"                                           \* line 295
      ELSE IF /\ options.exclude_link_local_addresses
              /\ IsSockAddrLinkLocal(CurrentAddr)
        THEN "link_local"                                       \* line 300
      ELSE IF IsDuplicate(listener_sockets, CurrentAddr)
        THEN "duplicate"                                        \* line 310
      ELSE "no"

\* The verdict with the test of no_local_addresses left out.
EnumVerdictWithoutEmptyTest(f) ==
  IF ~f.op_status.ok THEN [status |-> f.op_status, value |-> 0]
  ELSE [status |-> OkStatus, value |-> f.assigned_port]

\* Lines 328-332: what the walk returns.
EnumVerdict(f) ==
  IF ~f.op_status.ok THEN [status |-> f.op_status, value |-> 0]
  ELSE IF f.no_local_addresses
    THEN [status |-> FailedPreconditionError(<< Part("No local addresses") >>),
          value |-> 0]
  ELSE [status |-> OkStatus, value |-> f.assigned_port]

\* Lines 327-332: the loop is left and the call returns.
AddAllLocalReturn(f) == Return(EnumRet(f, EnumVerdict(f)))

\* ifa_it = ifa_it->ifa_next and the loop's exit test: the next pass, or the
\* return of lines 327-332 after the last entry.
Advance(f) ==
  IF f.ifa_it + 1 > Len(f.ifa)
    THEN AddAllLocalReturn([f EXCEPT !.ifa_it = @ + 1])
    ELSE /\ frame' = [f EXCEPT !.ifa_it = @ + 1]
         /\ pc' = "enum_loop"
         /\ UNCHANGED ret

\* no_local_addresses cleared as soon as an address passes the filters, before
\* the lookup of line 310.
NoLocalClearedByDuplicate(f, reason) ==
  IF reason = "duplicate" THEN FALSE ELSE f.no_local_addresses

\* Every `continue` of lines 283-314 leaves no_local_addresses as it is; only
\* line 324, after an append, clears it.
NoLocalAfterSkip(f, reason) == f.no_local_addresses

\* One pass of the loop body that ends in `continue` (lines 283-314).
AddAllLocalSkip ==
  /\ pc = "enum_loop"
  /\ SkipReason # "no"
  /\ Advance([frame EXCEPT
                !.skipped = @ \cup {<<frame.ifa_it, SkipReason>>},
                !.no_local_addresses = NoLocalAfterSkip(frame, SkipReason)])
  /\ UNCHANGED <<sizer, platform, options, fds, listener_sockets, host_ifaddrs,
                 is_ipv4_available, ncalls, kMaxAcceptQueueSize>>

\* The failure recorded and the walk carried on with the next interface.
OnBindFailureContinue(f, status) ==
  /\ Advance([f EXCEPT !.op_status = status])
  /\ UNCHANGED listener_sockets

\* The failure recorded and the sockets this call appended taken out again.
OnBindFailureRollback(f, status) ==
  /\ AddAllLocalReturn([f EXCEPT !.op_status = status])
  /\ listener_sockets' = f.before

\* Lines 317-320 and 327-328: op_status is set, `break` leaves the loop and
\* the call returns; the container is not touched.
OnBindFailure(f, status) ==
  /\ AddAllLocalReturn([f EXCEPT !.op_status = status])
  /\ UNCHANGED listener_sockets

\* Lines 315-325, the call started from `table` having returned.  Each call
\* is logged with the address looked up and passed on, the descriptor the
\* factory made for it (-1 if none) and whether a socket came back.
AddAllLocalBound(os, table) ==
  /\ \E result \in {CreateAndPrepareListenerSocket(options, CurrentAddr, table, os)} :
     LET addr     == CurrentAddr
         addr_str == ResolvedAddressToString(addr)
         logged   == [frame EXCEPT !.attempts =
                        Append(@, [it |-> frame.ifa_it, addr |-> addr,
                                   fd |-> result.fd, ok |-> result.status.ok])]
     IN  /\ fds' = result.fds
         /\ kMaxAcceptQueueSize' = result.queue
         /\ sizer' = CallReturned(result.init_runs)
         /\ IF result.crashed
              THEN /\ pc' = "crashed"
                   /\ frame' = logged
                   /\ UNCHANGED <<ret, listener_sockets>>
            ELSE IF ~result.status.ok
              THEN OnBindFailure(
                     logged,
                     FailedPreconditionError(
                       << Part("Failed to add listener: "), addr_str,
                          Part(" due to error: ") >> \o result.status.message))
            ELSE \* lines 322-324
                 /\ listener_sockets' = ContainerAppend(listener_sockets, result.socket)
                 /\ Advance([logged EXCEPT !.assigned_port = result.socket.port,
                                           !.no_local_addresses = FALSE])
  /\ UNCHANGED <<platform, options, host_ifaddrs, is_ipv4_available, ncalls>>

\* One pass of the loop body that reaches CreateAndPrepareListenerSocket
\* (lines 283-325), as far as the call's return or line 188.
AddAllLocalBind(os) ==
  /\ pc = "enum_loop"
  /\ SkipReason = "no"
  /\ IF ReachesListen(options, CurrentAddr, fds, os)
       THEN ArriveAtListen("enum_loop", CurrentAddr, os) /\ UNCHANGED ncalls
       ELSE AddAllLocalBound(os, fds)

\* The call of line 315 goes on from line 188; `fail` is what the kernel
\* answers from there on.
AddAllLocalListen(fail) ==
  /\ AtListen("enum_loop")
  /\ AddAllLocalBound([sizer.caller.os EXCEPT !.fail = fail], sizer.caller.table)

(***************************************************************************)
(* ListenerContainerAddWildcardAddresses (lines 342-393).                  *)
(***************************************************************************)
\* The test with the platform's capability left out.
ExpandsWildcardWhateverThePlatform == options.expand_wildcard_addrs

\* Line 351: SystemHasIfAddrs() && options.expand_wildcard_addrs
ExpandsWildcard == SystemHasIfAddrs /\ options.expand_wildcard_addrs

\* Lines 351-354: the whole call is handed to the enumerator, on whichever of
\* its two builds the platform has.
ListenerContainerAddWildcardAddresses_Expand ==
  /\ ExpandsWildcard
  /\ \/ \E port \in RequestPorts : AddAllLocalEnter("wildcard", port)
     \/ AddAllLocalUnsupported("wildcard")

\* An attempt not made.
NotTried ==
  [tried |-> FALSE, addr |-> NoAddr, status |-> OkStatus, socket |-> NoSocket,
   fd |-> -1, dsmode |-> "DSMODE_NONE"]

\* An attempt made on addr: what CreateAndPrepareListenerSocket returned, the
\* descriptor the factory made (-1 if none) and the mode it reported.
Tried(addr, r) ==
  [tried |-> TRUE, addr |-> addr, status |-> r.status, socket |-> r.socket,
   fd |-> r.fd, dsmode |-> r.dsmode]

\* What a call that took lines 356-392 returns, and what it did.
WildRet(f, verdict) ==
  [op |-> f.op, port |-> f.port, before |-> f.before, nfds |-> f.nfds,
   v6 |-> f.v6, v4 |-> f.v4] @@ verdict

\* Lines 342-355 of a call that does not delegate.
AddWildcardEnter(port) ==
  /\ pc = "idle"
  /\ ncalls.container < MaxCalls
  /\ ~ExpandsWildcard
  /\ ncalls' = [ncalls EXCEPT !.container = @ + 1]
  /\ frame' = [op |-> "ListenerContainerAddWildcardAddresses", port |-> port,
               before |-> listener_sockets, nfds |-> Len(fds),
               requested_port |-> port, assigned_port |-> 0,
               v6 |-> NotTried, v4 |-> NotTried]
  /\ pc' = "wild_v6"
  /\ ret' = NoRet
  /\ UNCHANGED <<sizer, platform, options, fds, listener_sockets, host_ifaddrs,
                 is_ipv4_available, kMaxAcceptQueueSize>>

ListenerContainerAddWildcardAddresses_Call ==
  \E port \in RequestPorts : AddWildcardEnter(port)

\* wild6 as line 346 made it.
Wild6ToTry == ResolvedAddressMakeWild6(frame.port)

\* The test with the dual-stack mode forgotten.
CoversIpv4NotDualStack(dsmode) == dsmode = "DSMODE_IPV4"

\* Lines 362-363: the IPv6 wildcard socket already serves IPv4.
CoversIpv4(dsmode) == dsmode \in {"DSMODE_DUALSTACK", "DSMODE_IPV4"}

\* Lines 357-366, the call of the IPv6 wildcard attempt, started from `table`,
\* having returned.
AddWildcardV6Returned(os, table) ==
  /\ \E v6_sock \in {CreateAndPrepareListenerSocket(options, Wild6ToTry, table, os)} :
     LET f == [frame EXCEPT !.v6 = Tried(Wild6ToTry, v6_sock)]
     IN  /\ fds' = v6_sock.fds
         /\ kMaxAcceptQueueSize' = v6_sock.queue
         /\ sizer' = CallReturned(v6_sock.init_runs)
         /\ IF v6_sock.crashed
              THEN /\ pc' = "crashed"
                   /\ frame' = f
                   /\ UNCHANGED <<ret, listener_sockets>>
            ELSE IF v6_sock.status.ok
              THEN /\ listener_sockets' =
                        ContainerAppend(listener_sockets, v6_sock.socket)
                   /\ LET g == [f EXCEPT !.requested_port = v6_sock.socket.port,
                                         !.assigned_port = v6_sock.socket.port]
                      IN  IF CoversIpv4(v6_sock.socket.dsmode)
                            THEN Return(WildRet(g, [status |-> OkStatus,
                                                    value |-> v6_sock.socket.port]))
                            ELSE /\ pc' = "wild_v4"
                                 /\ frame' = g
                                 /\ UNCHANGED ret
            ELSE /\ pc' = "wild_v4"
                 /\ frame' = f
                 /\ UNCHANGED <<ret, listener_sockets>>
  /\ UNCHANGED <<platform, options, host_ifaddrs, is_ipv4_available, ncalls>>

\* Lines 356-366 as far as the return of the call of line 357 or its line 188.
AddWildcardTryV6(os) ==
  /\ pc = "wild_v6"
  /\ IF ReachesListen(options, Wild6ToTry, fds, os)
       THEN ArriveAtListen("wild_v6", Wild6ToTry, os) /\ UNCHANGED ncalls
       ELSE AddWildcardV6Returned(os, fds)

\* The call of line 357 goes on from line 188; `fail` is what the kernel
\* answers from there on.
AddWildcardV6Listen(fail) ==
  /\ AtListen("wild_v6")
  /\ AddWildcardV6Returned([sizer.caller.os EXCEPT !.fail = fail],
                           sizer.caller.table)

\* wild4 as line 345 made it, the port of line 368 never set.
Wild4AtCallersPort == ResolvedAddressMakeWild4(frame.port)

\* wild4 at assigned_port, which is 0 after a failed [::] attempt.
Wild4AtAssignedPort ==
  ResolvedAddressSetPort(ResolvedAddressMakeWild4(frame.port), frame.assigned_port)

\* The address of the second attempt (lines 345 and 368).
Wild4ToTry == ResolvedAddressSetPort(ResolvedAddressMakeWild4(frame.port),
                                     frame.requested_port)

\* assigned_port left as the IPv6 attempt set it.
AssignedPortV6Only(v4_sock) == frame.assigned_port

\* Lines 370-371: assigned_port after the IPv4 attempt.
AssignedPortAfterV4(v4_sock) ==
  IF v4_sock.status.ok THEN v4_sock.socket.port ELSE frame.assigned_port

\* Lines 369-392, the call of the IPv4 wildcard attempt, started from `table`,
\* having returned, and the verdict.
AddWildcardV4Returned(os, table) ==
  /\ \E v4_sock \in {CreateAndPrepareListenerSocket(options, Wild4ToTry, table, os)} :
     LET assigned_port == AssignedPortAfterV4(v4_sock)
         f == [frame EXCEPT !.v4 = Tried(Wild4ToTry, v4_sock),
                            !.assigned_port = assigned_port]
     IN  /\ fds' = v4_sock.fds
         /\ kMaxAcceptQueueSize' = v4_sock.queue
         /\ sizer' = CallReturned(v4_sock.init_runs)
         /\ listener_sockets' =
              IF v4_sock.status.ok /\ ~v4_sock.crashed
                THEN ContainerAppend(listener_sockets, v4_sock.socket)
                ELSE listener_sockets
         /\ IF v4_sock.crashed
              THEN /\ pc' = "crashed"
                   /\ frame' = f
                   /\ UNCHANGED ret
            ELSE IF assigned_port > 0
              THEN Return(WildRet(f, [status |-> OkStatus, value |-> assigned_port]))
            ELSE IF frame.v6.status.ok \/ v4_sock.status.ok
              THEN \* CHECK(!v6_sock.ok()), CHECK(!v4_sock.ok())
                   /\ pc' = "crashed"
                   /\ frame' = f
                   /\ UNCHANGED ret
            ELSE Return(WildRet(f,
                   [status |-> FailedPreconditionError(
                      << Part("Failed to add any wildcard listeners: ") >>
                      \o frame.v6.status.message \o v4_sock.status.message),
                    value |-> 0]))
  /\ UNCHANGED <<platform, options, host_ifaddrs, is_ipv4_available, ncalls>>

\* Lines 367-392 as far as the return of the call of line 369 or its line 188.
AddWildcardTryV4(os) ==
  /\ pc = "wild_v4"
  /\ IF ReachesListen(options, Wild4ToTry, fds, os)
       THEN ArriveAtListen("wild_v4", Wild4ToTry, os) /\ UNCHANGED ncalls
       ELSE AddWildcardV4Returned(os, fds)

\* The call of line 369 goes on from line 188; `fail` is what the kernel
\* answers from there on.
AddWildcardV4Listen(fail) ==
  /\ AtListen("wild_v4")
  /\ AddWildcardV4Returned([sizer.caller.os EXCEPT !.fail = fail],
                           sizer.caller.table)

(***************************************************************************)
(* Bring-up of one listener: a sequence of bind requests on its container. *)
(***************************************************************************)
\* The failures drawn for the sockets of a bind request, one call of each
\* kind PrepareSocket makes: an option setter, the mutator hook, bind(),
\* listen() and getsockname().  All of them take the same early return; the
\* bring-up of a single socket draws every call of FatalSteps.
ListenerFailPoints ==
  {"SetSocketNonBlocking", "ApplySocketMutatorInOptions", "bind", "listen",
   "getsockname"}

\* What the kernel answers from listen() (line 188) on: the call that fails,
\* or "none".
ListenOutcomes ==
  {"none"} \cup (ListenerFailPoints \cap {"listen", "getsockname"})

\* What the kernel answers to a socket of a bind request as far as bind().
ListenerOutcomes(addr) ==
  OsOutcomes(addr, ListenerFailPoints \ ListenOutcomes, {TRUE})

ListenerContainerAddAllLocalAddresses_Listen ==
  \E fail \in ListenOutcomes : AddAllLocalListen(fail)

ListenerContainerAddWildcardAddresses_V6Listen ==
  \E fail \in ListenOutcomes : AddWildcardV6Listen(fail)

ListenerContainerAddWildcardAddresses_V4Listen ==
  \E fail \in ListenOutcomes : AddWildcardV4Listen(fail)

ListenerContainerAddAllLocalAddresses_Bind ==
  /\ pc = "enum_loop"
  /\ \E os \in ListenerOutcomes(CurrentAddr) : AddAllLocalBind(os)

ListenerContainerAddWildcardAddresses_V6 ==
  /\ pc = "wild_v6"
  /\ \E os \in ListenerOutcomes(Wild6ToTry) : AddWildcardTryV6(os)

ListenerContainerAddWildcardAddresses_V4 ==
  /\ pc = "wild_v4"
  /\ \E os \in ListenerOutcomes(Wild4ToTry) : AddWildcardTryV4(os)

Init ==
  /\ platform \in {p \in Platforms : p.reuse_port_supported /\ p.linux_errqueue}
  /\ options \in TcpOptions
  /\ sizer = SizerInit(DefaultSomaxconn)
  /\ InitCommon

Next ==
  \/ ListenerContainerAddAllLocalAddresses_Call
  \/ ListenerContainerAddAllLocalAddresses_Unsupported
  \/ ListenerContainerAddAllLocalAddresses_Pick
  \/ ListenerContainerAddAllLocalAddresses_GetIfAddrs
  \/ ListenerContainerAddAllLocalAddresses_Guard
  \/ ListenerContainerAddAllLocalAddresses_Init
  \/ AddAllLocalSkip
  \/ ListenerContainerAddAllLocalAddresses_Bind
  \/ ListenerContainerAddAllLocalAddresses_Listen
  \/ ListenerContainerAddWildcardAddresses_Expand
  \/ ListenerContainerAddWildcardAddresses_Call
  \/ ListenerContainerAddWildcardAddresses_V6
  \/ ListenerContainerAddWildcardAddresses_V6Listen
  \/ ListenerContainerAddWildcardAddresses_V4
  \/ ListenerContainerAddWildcardAddresses_V4Listen
  \/ PrepareSocket_Guard
  \/ PrepareSocket_Init

Spec == Init /\ [][Next]_vars

(***************************************************************************)
(* GetMaxAcceptQueueSize called from several threads (lines 127-130).      *)
(* The static's initialisation is the compiler's guarded one: the first    *)
(* thread to reach the declaration runs InitMaxAcceptQueueSize, a thread   *)
(* that arrives meanwhile waits, every later one skips it.                 *)
(***************************************************************************)
SizerOnly ==
  UNCHANGED <<platform, options, fds, listener_sockets, host_ifaddrs,
              is_ipv4_available, pc, frame, ret, ncalls>>

GetMaxAcceptQueueSize_Call(t) ==
  /\ ThreadAt(t, "idle")
  /\ sizer.threads[t].gets < MaxGets
  /\ sizer' = [sizer EXCEPT !.threads[t] = [pc |-> "guard", gets |-> @.gets + 1]]
  /\ UNCHANGED kMaxAcceptQueueSize
  /\ SizerOnly

\* Line 128, the guard: skip the initialiser, or take it if no thread has it.
GetMaxAcceptQueueSize_Guard(t) ==
  /\ ThreadAt(t, "guard")
  /\ IF StaticIsInitialized(kMaxAcceptQueueSize)
       THEN sizer' = ThreadGoes(t, "return")
       ELSE /\ ~GuardHeld
            /\ sizer' = ThreadGoes(t, "init")
  /\ UNCHANGED kMaxAcceptQueueSize
  /\ SizerOnly

\* Line 128, the initialiser: InitMaxAcceptQueueSize() reads somaxconn now.
GetMaxAcceptQueueSize_Init(t) ==
  /\ ThreadAt(t, "init")
  /\ kMaxAcceptQueueSize' = Initialized(InitMaxAcceptQueueSize(sizer.somaxconn))
  /\ sizer' = [ThreadGoes(t, "return") EXCEPT !.inits = @ + 1]
  /\ SizerOnly

\* Line 129.
GetMaxAcceptQueueSize_Return(t) ==
  /\ ThreadAt(t, "return")
  /\ sizer' = [ThreadGoes(t, "idle") EXCEPT
                 !.returned = @ \cup {kMaxAcceptQueueSize.value}]
  /\ UNCHANGED kMaxAcceptQueueSize
  /\ SizerOnly

\* The administrator writes another somaxconn.
ChangeSomaxconn(file) ==
  /\ sizer.changes < MaxChanges
  /\ file # sizer.somaxconn
  /\ sizer' = [sizer EXCEPT !.somaxconn = file, !.changes = @ + 1]
  /\ UNCHANGED kMaxAcceptQueueSize
  /\ SizerOnly

\* The addresses and kernel answers of the bring-up thread's call.
PrepareSocket_Calls ==
  \E port \in 0..MaxPort :
    LET addr == [fam |-> "AF_INET", host |-> Host4, port |-> port]
    IN  \E os \in OsOutcomes(addr, {"bind", "listen"}, {TRUE}) :
          CallCreateAndPrepare(addr, os)

InitQueue ==
  /\ platform \in {p \in Platforms : p.has_ifaddrs /\ p.reuse_port_supported
                                     /\ p.linux_errqueue}
  /\ options \in {o \in TcpOptions : ~o.expand_wildcard_addrs
                                     /\ ~o.exclude_link_local_addresses
                                     /\ ~o.allow_reuse_port}
  /\ \E file \in SomaxconnFiles : sizer = SizerInit(file)
  /\ InitCommon

NextQueue ==
  \/ \E t \in Threads : GetMaxAcceptQueueSize_Call(t)
  \/ \E t \in Threads : GetMaxAcceptQueueSize_Guard(t)
  \/ \E t \in Threads : GetMaxAcceptQueueSize_Init(t)
  \/ \E t \in Threads : GetMaxAcceptQueueSize_Return(t)
  \/ \E file \in SomaxconnFiles : ChangeSomaxconn(file)
  \/ PrepareSocket_Calls
  \/ PrepareSocket_Guard
  \/ PrepareSocket_Init
  \/ PrepareSocket_Listen

SpecQueue == InitQueue /\ [][NextQueue]_vars

(***************************************************************************)
(* Properties.                                                             *)
(***************************************************************************)
DirectReturned == ret.op = "CreateAndPrepareListenerSocket"

\* C1: whenever PrepareSocket returns an error, whichever call failed, the
\* socket's descriptor has been closed exactly once; when it returns OK the
\* descriptor is open and was never closed.
C1_HandleClosedOnceOnError ==
  (DirectReturned /\ ret.fd >= 1) =>
    /\ ~ret.status.ok => (~fds[ret.fd].open /\ fds[ret.fd].closes = 1)
    /\ ret.status.ok => (fds[ret.fd].open /\ fds[ret.fd].closes = 0)

\* PrepareSocket got as far as listen(), which failed, and the descriptor is
\* closed.
C1_Witness ==
  /\ DirectReturned
  /\ ret.fd >= 1
  /\ ~ret.status.ok
  /\ ret.calls # <<>>
  /\ ret.calls[Len(ret.calls)] = "listen"
  /\ fds[ret.fd].closes = 1

\* C2: CreateAndPrepareListenerSocket either returns a socket whose port is
\* > 0, and equal to the requested port when that is non-zero, or returns an
\* error status with no socket; the CHECK of line 226 never aborts.
C2_PortPositiveOrError ==
  /\ DirectReturned => pc # "crashed"
  /\ (DirectReturned /\ ret.status.ok) =>
       /\ ret.socket.port > 0
       /\ (IsIp(ret.addr) /\ ret.addr.port # 0) => ret.socket.port = ret.addr.port
  /\ (DirectReturned /\ ~ret.status.ok) => ret.socket = NoSocket

\* A port-0 request succeeded and the socket carries the kernel's port.
C2_Witness ==
  /\ DirectReturned
  /\ ret.status.ok
  /\ IsIp(ret.addr)
  /\ ret.addr.port = 0
  /\ ret.socket.port > 0

EnumReturned == pc = "idle" /\ ret.op = "ListenerContainerAddAllLocalAddresses"

\* A call of ListenerContainerAddWildcardAddresses that took lines 356-392.
WildReturned == pc = "idle" /\ ret.op = "ListenerContainerAddWildcardAddresses"

\* The request in progress, or the one that returned last.
Request == IF pc = "idle" THEN ret ELSE frame

InRequest == Request.op \in {"ListenerContainerAddAllLocalAddresses",
                             "ListenerContainerAddWildcardAddresses"}

\* The sockets the request has appended to the container so far.
AppendedIdx == (Len(Request.before) + 1)..Len(listener_sockets)

SameAddrPairs ==
  {<<i, j>> \in (1..Len(listener_sockets)) \X (1..Len(listener_sockets)) :
     i < j /\ listener_sockets[i].addr = listener_sockets[j].addr}

\* C3, as stated (invariant I2): no two entries of the container have
\* byte-identical resolved addresses.
C3_NoTwoEntriesSameAddress == SameAddrPairs = {}

\* C3, as the code has it: the container only grows by appends, and an append
\* repeats the address of an entry already there in two cases only: a wildcard
\* entry, which lines 356-373 append without a lookup, and the plain IPv4 form
\* (lines 219-221, on an IPv4-only socket) of an IPv4-mapped interface
\* address, which line 310 looked up unrewritten.  An interface address stored
\* as it was looked up never repeats an entry.
C3_RepeatsOnlyWildcardOrRewritten ==
  [][ LET n == Len(listener_sockets)
      IN  /\ \/ listener_sockets' = listener_sockets
             \/ /\ Len(listener_sockets') = n + 1
                /\ SubSeq(listener_sockets', 1, n) = listener_sockets
          /\ ( /\ Len(listener_sockets') = n + 1
               /\ Find(listener_sockets, listener_sockets'[n + 1].addr) ) =>
               \/ /\ frame.op = "ListenerContainerAddWildcardAddresses"
                  /\ IsWildHost(listener_sockets'[n + 1].addr)
               \/ /\ frame.op = "ListenerContainerAddAllLocalAddresses"
                  /\ ResolvedAddressIsV4Mapped(CurrentAddr)
                  /\ listener_sockets'[n + 1].dsmode = "DSMODE_IPV4"
                  /\ listener_sockets'[n + 1].addr = V4MappedToV4(CurrentAddr)
    ]_vars

\* The container holds two entries for one interface address, byte-identical
\* and not wildcard, each with its own open descriptor.
C3_Witness ==
  \E pair \in SameAddrPairs :
    /\ ~IsWildHost(listener_sockets[pair[1]].addr)
    /\ listener_sockets[pair[1]].addr.port # 0
    /\ listener_sockets[pair[1]].sock # listener_sockets[pair[2]].sock
    /\ fds[listener_sockets[pair[1]].sock].open
    /\ fds[listener_sockets[pair[2]].sock].open

\* C4 (invariant I3): with a non-zero requested port, every socket a request
\* appends carries that port, and a successful request returns it.
C4_RequestedPortOnEverySocket ==
  (InRequest /\ Request.port # 0) =>
    /\ \A i \in AppendedIdx : listener_sockets[i].port = Request.port
    /\ (pc = "idle" /\ ret.status.ok) => ret.value = ret.port

\* An interface walk at a non-zero port returned OK with two sockets appended.
C4_Witness ==
  /\ EnumReturned
  /\ ret.port # 0
  /\ ret.status.ok
  /\ Len(listener_sockets) >= Len(ret.before) + 2

\* C5 (invariant I4): with requested port 0, all the sockets one request
\* appends carry one common port > 0 (the picker's port on the interface walk,
\* the IPv6 wildcard's port on the wildcard path) and a successful request
\* returns that port.
C5_OnePortPerPortZeroRequest ==
  (InRequest /\ Request.port = 0) =>
    /\ \A i, j \in AppendedIdx :
         /\ listener_sockets[i].port > 0
         /\ listener_sockets[i].port = listener_sockets[j].port
    /\ (pc = "idle" /\ ret.status.ok) =>
         /\ ret.value > 0
         /\ AppendedIdx # {}
         /\ \A i \in AppendedIdx : listener_sockets[i].port = ret.value
    /\ (EnumReturned /\ ret.status.ok) => ret.value = ret.shared_port

\* A port-0 wildcard request bound an IPv6-only [::] and then 0.0.0.0 on the
\* port the kernel gave the first.
C5_Witness ==
  /\ WildReturned
  /\ ret.port = 0
  /\ ret.status.ok
  /\ ret.v6.status.ok
  /\ ret.v4.tried
  /\ ret.v4.status.ok
  /\ ret.v4.socket.port = ret.v6.socket.port

InEnumerator == Request.op = "ListenerContainerAddAllLocalAddresses"

\* The attempts of the interface walk that ended in a socket.
OkAttempts == {k \in 1..Len(Request.attempts) : Request.attempts[k].ok}

\* C6: a failed CreateAndPrepareListenerSocket is the last attempt of the walk:
\* no later interface is tried, and the call returns an error whose message
\* names the failing address.
C6_AbortOnFirstFailure ==
  InEnumerator =>
    LET a == Request.attempts
    IN  /\ \A k \in 1..Len(a) :
             ~a[k].ok => (k = Len(a) /\ pc = "idle")
        /\ \A k \in 1..(Len(a) - 1) : a[k].it < a[k + 1].it
        /\ (pc = "idle" /\ a # <<>> /\ ~a[Len(a)].ok) =>
             /\ ~ret.status.ok
             /\ Len(ret.status.message) >= 2
             /\ ret.status.message[1] = Part("Failed to add listener: ")
             /\ ret.status.message[2] = ResolvedAddressToString(a[Len(a)].addr)

\* The first interface failed to bind and the second, an address the walk
\* would have bound, was never tried.
C6_Witness ==
  /\ EnumReturned
  /\ Len(ret.ifa) = 2
  /\ ret.ifa[2].fam = "AF_INET6"
  /\ ~options.exclude_link_local_addresses
  /\ Len(ret.attempts) = 1
  /\ ret.attempts[1].it = 1
  /\ ~ret.attempts[1].ok

\* C7, as stated: when the walk returns an error the container is what it was
\* before the call and every descriptor the call opened is closed.
C7_RolledBackOnError ==
  (EnumReturned /\ ~ret.status.ok) =>
    /\ listener_sockets = ret.before
    /\ \A fd \in 1..Len(fds) :
         fds[fd].open => \E i \in 1..Len(ret.before) : ret.before[i].sock = fd

\* C7, as the code has it: there is no rollback.  When the walk returns an
\* error, the sockets it appended before the failing address are still in the
\* container, in order after the earlier entries, each bound, listening and
\* with its descriptor open; the descriptor of the failing attempt, if the
\* factory made one, was closed once, and nothing was appended after it.
C7_NoRollbackOnError ==
  (EnumReturned /\ ~ret.status.ok) =>
    LET a == ret.attempts
    IN  /\ Len(listener_sockets) = Len(ret.before) + Cardinality(OkAttempts)
        /\ SubSeq(listener_sockets, 1, Len(ret.before)) = ret.before
        /\ \A k \in OkAttempts :
             LET s == listener_sockets[Len(ret.before) + k]
             IN  /\ s.sock = a[k].fd
                 /\ fds[s.sock].open
                 /\ fds[s.sock].closes = 0
                 /\ fds[s.sock].addr = s.addr
                 /\ fds[s.sock].backlog > 0
        /\ \A k \in 1..Len(a) :
             ~a[k].ok =>
               /\ k = Len(a)
               /\ a[k].fd # -1 =>
                    /\ ~fds[a[k].fd].open
                    /\ fds[a[k].fd].closes = 1
                    /\ \A i \in 1..Len(listener_sockets) :
                         listener_sockets[i].sock # a[k].fd

\* The walk bound and appended one interface, failed on the next after the
\* factory had made its socket, and returned the error with the first socket
\* still in the container, listening.
C7_Witness ==
  /\ EnumReturned
  /\ ~ret.status.ok
  /\ Len(ret.attempts) = 2
  /\ ret.attempts[2].fd # -1
  /\ Len(listener_sockets) = Len(ret.before) + 1
  /\ fds[listener_sockets[Len(listener_sockets)].sock].open
  /\ fds[listener_sockets[Len(listener_sockets)].sock].backlog > 0

InWildcard == Request.op = "ListenerContainerAddWildcardAddresses"

\* C8: on lines 356-392 the call returns OK exactly when the [::] or the
\* 0.0.0.0 attempt succeeded, with a port > 0 that a socket appended by the
\* call carries; it returns an error only when both failed, the container
\* then is unchanged and the message holds both attempts' messages.  Neither
\* CHECK of lines 391-392 aborts.
C8_WildcardBestEffort ==
  /\ InWildcard => pc # "crashed"
  /\ WildReturned =>
       /\ ret.status.ok <=>
            (ret.v6.status.ok \/ (ret.v4.tried /\ ret.v4.status.ok))
       /\ ret.status.ok =>
            /\ ret.value > 0
            /\ \E i \in AppendedIdx : listener_sockets[i].port = ret.value
       /\ ~ret.status.ok =>
            /\ ~ret.v6.status.ok
            /\ ret.v4.tried
            /\ ~ret.v4.status.ok
            /\ listener_sockets = ret.before
            /\ ret.v6.status.message # <<>>
            /\ ret.v4.status.message # <<>>
            /\ MessageContains(ret.status.message, ret.v6.status.message)
            /\ MessageContains(ret.status.message, ret.v4.status.message)
            /\ Len(ret.status.message) >=
                 Len(ret.v6.status.message) + Len(ret.v4.status.message)

\* The [::] attempt failed, the 0.0.0.0 attempt bound, and the call returned
\* the IPv4 socket's port.
C8_Witness ==
  /\ WildReturned
  /\ ~ret.v6.status.ok
  /\ ret.v4.tried
  /\ ret.v4.status.ok
  /\ ret.status.ok
  /\ ret.value = ret.v4.socket.port
  /\ Len(listener_sockets) = Len(ret.before) + 1

\* The factory made an IPv4-only descriptor for the [::] attempt.
Wild6OnIpv4Only ==
  Request.v6.tried /\ Request.v6.fd # -1 /\ Request.v6.dsmode = "DSMODE_IPV4"

SharedPort == IF pc = "idle" THEN ret.shared_port ELSE frame.requested_port

\* Entry i of the interface list with the shared port set.
IfaAddr(i) == ResolvedAddressSetPort(Request.ifa[i], SharedPort)

\* Entry i passes the filters of lines 286-307.
Usable(i) ==
  /\ Request.ifa[i] # NoAddr
  /\ Request.ifa[i].fam \in {"AF_INET", "AF_INET6"}
  /\ Request.ifa[i].fam = "AF_INET" => is_ipv4_available = "yes"
  /\ ~(options.exclude_link_local_addresses /\ IsSockAddrLinkLocal(IfaAddr(i)))

Attempted(i) == \E k \in 1..Len(Request.attempts) : Request.attempts[k].it = i

\* The walk has gone through entry i.
Visited(i) == Attempted(i) \/ \E r \in {s[2] : s \in Request.skipped} :
                                <<i, r>> \in Request.skipped

\* The entry appended for attempt k, an attempt that succeeded.
EntryOf(k) == listener_sockets[Len(Request.before) + k]

\* The container as it was when the walk reached entry i.
EntriesBefore(i) ==
  SubSeq(listener_sockets, 1,
         Len(Request.before)
           + Cardinality({k \in OkAttempts : Request.attempts[k].it < i}))

\* C10, as stated: when the list names a usable address twice, the walk makes
\* exactly one attempt for it, the container ends with exactly one entry for
\* it, the second occurrence is skipped as a duplicate and the call returns
\* OK.
C10_DuplicateInterfaceSkipped ==
  EnumReturned =>
    \A i, j \in 1..Len(ret.ifa) :
      (i < j /\ ret.ifa[i] = ret.ifa[j] /\ Usable(i)) =>
        /\ Cardinality({k \in 1..Len(ret.attempts) :
                          ret.attempts[k].addr = IfaAddr(i)}) = 1
        /\ Cardinality({n \in 1..Len(listener_sockets) :
                          listener_sockets[n].addr = IfaAddr(i)}) = 1
        /\ <<j, "duplicate">> \in ret.skipped
        /\ ret.status.ok

\* C10, as the code has it.  A usable entry the walk reaches is skipped as a
\* duplicate exactly when the container then holds a byte-identical address,
\* and attempted otherwise.  Two attempts for one address happen only when the
\* earlier one's entry was stored in plain IPv4 form, the address being
\* IPv4-mapped.  When the list names a usable address twice and the walk
\* reaches the second occurrence: if the first occurrence was skipped as a
\* duplicate, or bound and stored as looked up, the second is skipped as a
\* duplicate; in the latter case no later attempt is made for the address and
\* every other entry with these bytes was stored rewritten by this call.  The
\* second occurrence is attempted only if the first was bound and stored
\* rewritten.  No entry after a failed attempt is reached.  The call returns
\* OK exactly when it made an attempt and every attempt succeeded.
C10_DuplicateSkippedWhenStoredAsLookedUp ==
  InEnumerator =>
    LET a == Request.attempts
        n == Len(Request.ifa)
        StoredAsLookedUp(k) == a[k].ok /\ EntryOf(k).addr = a[k].addr
        StoredRewritten(k) ==
          /\ a[k].ok
          /\ ResolvedAddressIsV4Mapped(a[k].addr)
          /\ EntryOf(k).dsmode = "DSMODE_IPV4"
          /\ EntryOf(k).addr = V4MappedToV4(a[k].addr)
    IN  /\ \A i \in 1..n :
             (Usable(i) /\ Visited(i)) =>
               /\ <<i, "duplicate">> \in Request.skipped
                    <=> Find(EntriesBefore(i), IfaAddr(i))
               /\ Attempted(i) <=> ~Find(EntriesBefore(i), IfaAddr(i))
        /\ \A k, m \in 1..Len(a) :
             (k < m /\ a[k].addr = a[m].addr) => StoredRewritten(k)
        /\ \A k \in 1..Len(a) :
             ~a[k].ok => \A i \in 1..n : Visited(i) => i <= a[k].it
        /\ \A i, j \in 1..n :
             (i < j /\ Request.ifa[i] = Request.ifa[j] /\ Usable(i) /\ Visited(j)) =>
               /\ Visited(i)
               /\ ( \/ <<i, "duplicate">> \in Request.skipped
                    \/ \E k \in 1..Len(a) : a[k].it = i /\ StoredAsLookedUp(k) ) =>
                    <<j, "duplicate">> \in Request.skipped
               /\ Attempted(j) =>
                    \E k \in 1..Len(a) : a[k].it = i /\ StoredRewritten(k)
               /\ \A k \in 1..Len(a) :
                    (a[k].it = i /\ StoredAsLookedUp(k)) =>
                      /\ \A m \in (k + 1)..Len(a) : a[m].addr # a[k].addr
                      /\ \A e \in 1..Len(listener_sockets) :
                           ( /\ listener_sockets[e].addr = a[k].addr
                             /\ e # Len(Request.before) + k ) =>
                             /\ e > Len(Request.before)
                             /\ a[e - Len(Request.before)].addr # a[k].addr
        /\ pc = "idle" =>
             (ret.status.ok <=> (a # <<>> /\ \A k \in 1..Len(a) : a[k].ok))

\* The list named 10.0.0.1 twice; the walk bound it once, skipped the second
\* occurrence and returned OK.
C10_Witness ==
  /\ EnumReturned
  /\ Len(ret.ifa) = 2
  /\ ret.ifa[1] = ret.ifa[2]
  /\ Len(ret.attempts) = 1
  /\ ret.attempts[1].ok
  /\ <<2, "duplicate">> \in ret.skipped
  /\ ret.status.ok
  /\ Len(listener_sockets) = Len(ret.before) + 1

\* The reasons for which the walk filters an interface entry out.
FilterReasons == {"null", "family", "no_ipv4", "link_local"}

\* getifaddrs() returned 0 and its list has no entry that passes the filters.
NoUsableAddress ==
  /\ ret.getifaddrs.called
  /\ ret.getifaddrs.rc = 0
  /\ \A i \in 1..Len(ret.ifa) : ~Usable(i)

NoLocalAddresses == FailedPreconditionError(<< Part("No local addresses") >>)

GetIfAddrsError ==
  FailedPreconditionError(<< Part("getifaddrs: "), Part("strerror(errno)") >>)

\* C11, as stated: when the interface list holds no usable address (null
\* address, family other than IPv4/IPv6, IPv4 while IPv4 is unavailable,
\* link-local while link-local addresses are excluded) the walk returns the
\* error "No local addresses" and appends nothing; and it never returns OK
\* with port 0.
C11_EmptyEnumerationFails ==
  /\ (EnumReturned /\ NoUsableAddress) =>
       /\ ret.status = NoLocalAddresses
       /\ listener_sockets = ret.before
  /\ (EnumReturned /\ ret.status.ok) => ret.value > 0

\* C11, as the code has it: a list with entries, every one of them filtered
\* out, gives "No local addresses"; a list with no entry at all, like a
\* failing getifaddrs(), gives the error "getifaddrs: <strerror>" of lines
\* 271-274 before the walk starts.  In each case no socket is attempted and
\* nothing is appended; and the walk never returns OK with port 0 or with
\* nothing appended.
C11_FilteredListOrEmptyListFails ==
  /\ (EnumReturned /\ NoUsableAddress) =>
       /\ ret.status = IF ret.ifa = <<>> THEN GetIfAddrsError
                       ELSE NoLocalAddresses
       /\ \A i \in 1..Len(ret.ifa) :
            \E r \in FilterReasons : <<i, r>> \in ret.skipped
       /\ ret.attempts = <<>>
       /\ listener_sockets = ret.before
  /\ (EnumReturned /\ ret.getifaddrs.called /\ ret.getifaddrs.rc # 0) =>
       /\ ret.status = GetIfAddrsError
       /\ ret.attempts = <<>>
       /\ listener_sockets = ret.before
  /\ (EnumReturned /\ ret.status.ok) =>
       /\ ret.value > 0
       /\ Len(listener_sockets) > Len(ret.before)

\* A list of two entries, an AF_PACKET entry and a link-local address with
\* link-local addresses excluded, gave "No local addresses".
C11_Witness ==
  /\ EnumReturned
  /\ NoUsableAddress
  /\ Len(ret.ifa) = 2
  /\ <<1, "family">> \in ret.skipped
  /\ <<2, "link_local">> \in ret.skipped
  /\ ret.status = NoLocalAddresses

\* The enumerator's #else build was entered and crashed.
EnumeratorCrashed ==
  /\ pc = "crashed"
  /\ ret.op = "ListenerContainerAddAllLocalAddresses"
  /\ frame = NoFrame

\* C12: ListenerContainerAddWildcardAddresses hands the call to the enumerator,
\* creating no wildcard socket, exactly when SystemHasIfAddrs() and
\* expand_wildcard_addrs both hold; without interface enumeration it never
\* enters the enumerator, so the enumerator's crash is not reached from it and
\* the call takes the [::] / 0.0.0.0 path.
C12_PathSelection ==
  /\ (InEnumerator /\ Request.via = "wildcard") =>
       /\ SystemHasIfAddrs
       /\ options.expand_wildcard_addrs
       /\ \A k \in 1..Len(Request.attempts) : ~IsWildHost(Request.attempts[k].addr)
       /\ \A i \in AppendedIdx : ~IsWildHost(listener_sockets[i].addr)
  /\ InWildcard => ~(SystemHasIfAddrs /\ options.expand_wildcard_addrs)
  /\ EnumeratorCrashed => ret.via = "direct"

\* Without interface enumeration and with expand_wildcard_addrs set, the call
\* bound a wildcard socket and returned its port.
C12_Witness ==
  /\ WildReturned
  /\ ~SystemHasIfAddrs
  /\ options.expand_wildcard_addrs
  /\ ret.status.ok
  /\ IsWildHost(listener_sockets[Len(listener_sockets)].addr)

\* PrepareSocket ran on a descriptor the factory returned.
Prepared == DirectReturned /\ ret.fd >= 1

CallsMade == {ret.calls[i] : i \in 1..Len(ret.calls)}

LastCall == ret.calls[Len(ret.calls)]

\* C13: a failure of SetSocketZeroCopy or TrySetSocketTcpUserTimeout never
\* makes PrepareSocket return: the calls after it are made, an error return is
\* never at one of these two calls, and with no other call failing the result
\* is OK with the descriptor open; after a successful prepare
\* zero_copy_enabled holds exactly when SetSocketZeroCopy was called and
\* succeeded.
C13_CosmeticFailuresNotFatal ==
  Prepared =>
    /\ ~ret.status.ok =>
         LastCall \notin {"SetSocketZeroCopy", "TrySetSocketTcpUserTimeout"}
    /\ "SetSocketZeroCopy" \in CallsMade => "SetSocketNonBlocking" \in CallsMade
    /\ "TrySetSocketTcpUserTimeout" \in CallsMade =>
         "SetSocketNoSigpipeIfPossible" \in CallsMade
    /\ ret.os.fail = "none" => (ret.status.ok \/ LastCall = "bind")
    /\ ret.status.ok =>
         /\ ret.socket.zero_copy_enabled =
              (platform.linux_errqueue /\ ret.os.zerocopy)
         /\ fds[ret.fd].open
         /\ fds[ret.fd].closes = 0

\* Zero-copy and the user timeout both failed on an IP socket and the prepare
\* succeeded with zero_copy_enabled false.
C13_Witness ==
  /\ Prepared
  /\ platform.linux_errqueue
  /\ IsIp(ret.addr)
  /\ ~ret.os.zerocopy
  /\ ~ret.os.user_timeout
  /\ ret.status.ok
  /\ ~ret.socket.zero_copy_enabled
  /\ fds[ret.fd].open

NoSigpipeFailed == Prepared /\ ret.os.fail = "SetSocketNoSigpipeIfPossible"

\* C14, as stated: a failure of SetSocketNoSigpipeIfPossible does not make
\* PrepareSocket fail; the mutator, bind, listen and getsockname calls follow
\* and, nothing else failing, the prepare succeeds.
C14_NoSigpipeBestEffort ==
  NoSigpipeFailed =>
    /\ {"ApplySocketMutatorInOptions", "bind"} \subseteq CallsMade
    /\ ret.status.ok \/ LastCall = "bind"

\* C14, as the code has it: the status of SetSocketNoSigpipeIfPossible is
\* under GRPC_RETURN_IF_ERROR.  When the call reports a failure PrepareSocket
\* returns that status at once: the mutator, bind, listen and getsockname
\* calls are not made, the descriptor is closed once and no socket is
\* returned.
C14_NoSigpipeFailureIsFatal ==
  NoSigpipeFailed =>
    /\ ~ret.status.ok
    /\ ret.status = ErrorFrom("SetSocketNoSigpipeIfPossible")
    /\ LastCall = "SetSocketNoSigpipeIfPossible"
    /\ CallsMade \cap {"ApplySocketMutatorInOptions", "bind", "listen",
                       "getsockname"} = {}
    /\ ret.socket = NoSocket
    /\ ~fds[ret.fd].open
    /\ fds[ret.fd].closes = 1

\* SetSocketNoSigpipeIfPossible failed after the option setters before it
\* had succeeded, and PrepareSocket returned its error.
C14_Witness ==
  /\ NoSigpipeFailed
  /\ "SetSocketCloexec" \in CallsMade
  /\ ~ret.status.ok
  /\ fds[ret.fd].closes = 1

Listening == {fd \in 1..Len(fds) : fds[fd].backlog # -1}

\* C15: InitMaxAcceptQueueSize runs at most once, also when threads race for
\* the first use; every value GetMaxAcceptQueueSize has returned is the value
\* of the static, whatever somaxconn has become since; and every listen() had
\* that value as its backlog.
C15_AcceptQueueSizeComputedOnce ==
  /\ sizer.inits <= 1
  /\ sizer.inits = 1 <=> kMaxAcceptQueueSize.initialized
  /\ \A v \in sizer.returned :
       /\ kMaxAcceptQueueSize.initialized
       /\ v = kMaxAcceptQueueSize.value
  /\ \A fd \in Listening :
       /\ kMaxAcceptQueueSize.initialized
       /\ fds[fd].backlog = kMaxAcceptQueueSize.value
  /\ kMaxAcceptQueueSize.initialized => kMaxAcceptQueueSize.value > 0

\* Two threads raced for the first use and both have their value; somaxconn
\* was rewritten to something that would now read differently; a socket
\* listens with the cached value.
C15_Witness ==
  /\ \A t \in {1, 2} : sizer.threads[t].gets >= 1 /\ ThreadAt(t, "idle")
  /\ sizer.inits = 1
  /\ sizer.changes = 1
  /\ InitMaxAcceptQueueSize(sizer.somaxconn) # kMaxAcceptQueueSize.value
  /\ sizer.returned = {kMaxAcceptQueueSize.value}
  /\ Listening # {}

\* fe80::/10 spelled out on the first two bytes of an IPv6 address.
InFe80Slash10(host) == host[1] = 254 /\ host[2] \div 64 = 2

\* C16: IsSockAddrLinkLocal is true for an IPv4 address exactly when its first
\* two bytes are 169.254, for an IPv6 address exactly when its top ten bits
\* are those of fe80::/10, and false for every other family; so it is true
\* for 169.254.1.1 and fe80::1 and false for 10.0.0.1 and 2001:db8::1.
C16_LinkLocalClassification ==
  /\ ret.op = "IsSockAddrLinkLocal" =>
       ret.result =
         CASE ret.addr.fam = "AF_INET" ->
                ret.addr.host[1] = 169 /\ ret.addr.host[2] = 254
           [] ret.addr.fam = "AF_INET6" -> InFe80Slash10(ret.addr.host)
           [] OTHER -> FALSE
  /\ IsSockAddrLinkLocal([fam |-> "AF_INET", host |-> <<169, 254, 1, 1>>, port |-> 0])
  /\ IsSockAddrLinkLocal([fam |-> "AF_INET6", port |-> 0,
                          host |-> <<254, 128>> \o Zeros(13) \o <<1>>])
  /\ ~IsSockAddrLinkLocal([fam |-> "AF_INET", host |-> <<10, 0, 0, 1>>, port |-> 0])
  /\ ~IsSockAddrLinkLocal([fam |-> "AF_INET6", port |-> 0,
                           host |-> <<32, 1, 13, 184>> \o Zeros(11) \o <<1>>])

\* febf::1, the last /16 inside fe80::/10, was classified link-local.
C16_Witness ==
  /\ ret.op = "IsSockAddrLinkLocal"
  /\ ret.addr.fam = "AF_INET6"
  /\ ret.addr.host[1] = 254
  /\ ret.addr.host[2] = 191
  /\ ret.result

\* Position of a call among those PrepareSocket made; 0 if it was not made.
Pos(call) ==
  IF call \in CallsMade
    THEN CHOOSE i \in 1..Len(ret.calls) : ret.calls[i] = call
    ELSE 0

OptionCalls ==
  {"SetSocketReusePort", "SetSocketZeroCopy", "SetSocketNonBlocking",
   "SetSocketCloexec", "SetSocketLowLatency", "SetSocketReuseAddr",
   "SetSocketDscp", "TrySetSocketTcpUserTimeout",
   "SetSocketNoSigpipeIfPossible", "ApplySocketMutatorInOptions"}

\* C17: in every run of PrepareSocket the option setters and the mutator hook
\* come before bind(), and bind() is called only after the ones the code
\* always makes; listen() follows a bind() that succeeded; getsockname()
\* follows a listen() that succeeded; socket.port is non-zero only when
\* getsockname() succeeded, and it is 0 whenever an error is returned.
C17_PrepareOrder ==
  Prepared =>
    /\ \A i, j \in 1..Len(ret.calls) : i < j => ret.calls[i] # ret.calls[j]
    /\ \A c \in OptionCalls \cap CallsMade :
         /\ "bind" \in CallsMade => Pos(c) < Pos("bind")
         /\ CallsMade \cap {"listen", "getsockname"} # {} => "bind" \in CallsMade
    /\ "bind" \in CallsMade =>
         {"SetSocketNonBlocking", "SetSocketCloexec",
          "SetSocketNoSigpipeIfPossible", "ApplySocketMutatorInOptions"}
           \subseteq CallsMade
    /\ "listen" \in CallsMade =>
         /\ Pos("bind") > 0
         /\ Pos("bind") < Pos("listen")
         /\ fds[ret.fd].open => fds[ret.fd].addr # NoAddr
    /\ "getsockname" \in CallsMade =>
         /\ Pos("listen") > 0
         /\ Pos("listen") < Pos("getsockname")
         /\ ret.os.fail # "listen"
    /\ ~ret.status.ok =>
         /\ \A i \in 1..(Len(ret.calls) - 1) : ret.os.fail # ret.calls[i]
         /\ ret.port_at_return = 0
    /\ ret.port_at_return # 0 =>
         /\ ret.status.ok
         /\ LastCall = "getsockname"
         /\ ret.os.fail # "getsockname"

\* getsockname() failed after bind() and listen() had succeeded, and the
\* error was returned with socket.port still 0.
C17_Witness ==
  /\ Prepared
  /\ ~ret.status.ok
  /\ LastCall = "getsockname"
  /\ Pos("bind") > 0
  /\ Pos("bind") < Pos("listen")
  /\ ret.port_at_return = 0

\* The port lines 360 and 368 give the 0.0.0.0 attempt.
FallbackPort ==
  IF Request.v6.status.ok THEN Request.v6.socket.port ELSE Request.port

\* C18: the 0.0.0.0 attempt is made at the port the IPv6-only [::] socket got
\* from the kernel when the [::] attempt succeeded, and at the caller's port
\* when it failed; [::] is attempted at the caller's port; each wildcard
\* address is attempted once, so a call creates at most one socket per
\* attempt and a failed attempt is not repeated.
C18_FallbackPort ==
  InWildcard =>
    /\ Request.v6.tried => Request.v6.addr = ResolvedAddressMakeWild6(Request.port)
    /\ (pc = "wild_v4" \/ pc = "idle") => Request.v6.tried
    /\ pc = "wild_v4" => frame.requested_port = FallbackPort
    /\ (pc = "idle" /\ ret.v4.tried) =>
         /\ ret.v4.addr = ResolvedAddressMakeWild4(FallbackPort)
         /\ ret.v6.status.ok =>
              /\ ret.v6.socket.dsmode = "DSMODE_IPV6"
              /\ ret.v6.socket.port > 0
              /\ ret.v4.status.ok => ret.v4.socket.port = ret.v6.socket.port
    /\ pc = "idle" =>
         /\ Len(fds) <= ret.nfds + 1 + (IF ret.v4.tried THEN 1 ELSE 0)
         /\ Len(listener_sockets) - Len(ret.before) =
              (IF ret.v6.status.ok THEN 1 ELSE 0)
              + (IF ret.v4.tried /\ ret.v4.status.ok THEN 1 ELSE 0)

\* The [::] socket of a caller who asked for a non-zero port was bound and its
\* listen() failed; it was closed, and the one 0.0.0.0 attempt bound at the
\* caller's port.
C18_Witness ==
  /\ WildReturned
  /\ ret.port # 0
  /\ ~ret.v6.status.ok
  /\ ret.v6.status.message[1] = Part("Error in listen: ")
  /\ ~fds[ret.v6.fd].open
  /\ ret.v4.tried
  /\ ret.v4.addr.port = ret.port
  /\ ret.v4.status.ok
  /\ ret.v4.socket.port = ret.port
  /\ Len(fds) = ret.nfds + 2

\* fd is the socket of a call of CreateAndPrepareListenerSocket that is at
\* line 188.
BeingPrepared(fd) ==
  sizer.caller # NoCaller /\ fd = Len(sizer.caller.table) + 1

\* The request called GetUnusedPort.
Picked == InEnumerator /\ Request.pick.called

\* The errors GetUnusedPort returns once the factory has made its socket.
PickerErrors ==
  {FailedPreconditionError(<< Part("bind(GetUnusedPort): "),
                              Part("strerror(errno)") >>),
   FailedPreconditionError(<< Part("getsockname(GetUnusedPort): "),
                              Part("strerror(errno)") >>),
   FailedPreconditionError(<< Part("Bad port") >>)}

\* On every path through GetUnusedPort the throwaway socket, if one was
\* created, is closed exactly once before the function returns; the function
\* returns a port > 0 or an error, and on an error the request ends with that
\* error, no list read and no attempt.
PickerClosesAndReturns ==
  /\ Picked =>
       /\ Request.pick.fd # 0 =>
            /\ Request.pick.fd = Request.nfds + 1
            /\ ~fds[Request.pick.fd].open
            /\ fds[Request.pick.fd].closes = 1
            /\ fds[Request.pick.fd].addr = NoAddr
       /\ Request.pick.fd = 0 => Request.pick.status = ErrorFrom("socket")
       /\ Request.pick.status.ok =>
            /\ Request.pick.fd # 0
            /\ Request.pick.port > 0
            /\ SharedPort = Request.pick.port
       /\ ~Request.pick.status.ok =>
            /\ Request.pick.port = 0
            /\ Request.pick.fd # 0 => Request.pick.status \in PickerErrors
            /\ pc = "idle"
            /\ ret.status = ret.pick.status
            /\ ~ret.getifaddrs.called
            /\ ret.attempts = <<>>
            /\ listener_sockets = ret.before
  /\ (InEnumerator /\ ~Request.pick.called) => Request.pick.fd = 0

HoldsEntryFor(container, addr) ==
  \/ Find(container, addr)
  \/ ResolvedAddressIsV4Mapped(addr) /\ Find(container, V4MappedToV4(addr))

\* What C20 concludes: every entry skipped, the usable ones as duplicates, no
\* socket created, the container unchanged, "No local addresses" returned.
AllSkippedNothingBound ==
  /\ \A i \in 1..Len(ret.ifa) :
       /\ Visited(i)
       /\ Usable(i) => <<i, "duplicate">> \in ret.skipped
  /\ ret.attempts = <<>>
  /\ listener_sockets = ret.before
  /\ Len(fds) = ret.nfds
  /\ ret.status = NoLocalAddresses

\* The list has a usable entry.
SomeUsable ==
  /\ ret.getifaddrs.called
  /\ ret.getifaddrs.rc = 0
  /\ \E i \in 1..Len(ret.ifa) : Usable(i)

====
